---- MODULE Spec2Model ----
(***************************************************************************)
(* MoniBot worker: transaction execution and deduplication engine.         *)
(*                                                                         *)
(* Token quantities on chain are integers ("units", the 6-decimal integer  *)
(* representation).  Amounts handled by the JavaScript code as numbers are *)
(* represented in tenths of a unit, so that amount.toFixed(6) followed by  *)
(* parseUnits is a real rounding and formatUnits/parseFloat is a real      *)
(* scaling.                                                                *)
(*                                                                         *)
(* In the floating-point arithmetic of the batch pre-check an amount of 10  *)
(* stands for the JavaScript number 0.1 and a balance of n units for the   *)
(* number n * 0.1, so that the products and quotients of IEEE doubles that *)
(* are not exact on that scale (0.1 * 3 > 0.3, 0.3 / 0.1 < 3) are the ones *)
(* the code computes.                                                      *)
(*                                                                         *)
(* An error message is represented by the set of substrings of interest it *)
(* contains; String.includes is membership in that set.                    *)
(***************************************************************************)
EXTENDS Integers, Sequences, FiniteSets, TLC

\* ---------------------------------------------------------------- bounds
MaxFaults == 2          \* injected RPC / database failures per behaviour
MaxCalls == 1           \* direct executor calls per behaviour (SpecExec)
MaxBal == 1             \* largest initial balance / allowance, in units
MaxCycles == 2          \* poll cycles started per behaviour
MaxRestarts == 1        \* process restarts per behaviour
MaxProbes == 2          \* direct checkBaseFunds calls per behaviour (SpecProbe)

\* ------------------------------------------------------- program constants
RpcCount == 4           \* RPC_URLS.length with BASE_RPC_URL set

\* ------------------------------------------------------------ value sets
Workers == {"w1", "w2"}             \* overlapping invocations of one process
Addrs == {"a1", "a2", "a3", "a4", "a5"}   \* wallet addresses
Campaigns == {"c1"}                 \* campaign tweet ids
Amounts == {10, 16}                 \* JS amounts, tenths of a unit
GasValues == {4, 9}                 \* values estimateContractGas may return
FeeRates == {0, 50}                 \* router fee, percent of the gross amount

NoErr == {}
RpcErrors == {{"429"}, {"Rate Limit"}, {"timeout"}}

VARIABLES
  tweetUsed,      \* router: set of tweet ids marked used
  grantIssued,    \* router: set of <<campaignId, recipient>> marked granted
  balance,        \* token: balanceOf, per wallet
  allowance,      \* token: allowance(wallet, router)
  routerBalance,  \* token: balanceOf(router)
  routerNonce,    \* router: getNonce, per wallet
  feeRate,        \* router: fee percentage behind calculateFee
  txs,            \* every transaction handed to writeContract, in order
  rpcIndex,       \* blockchain.js: rpcIndex
  clientRpc,      \* endpoint index publicClient is bound to
  walletRpc,      \* endpoint index walletClient is bound to
  pc,             \* per invocation: position in the code
  ex,             \* per invocation: locals of the executor call
  faults,         \* number of failures injected so far
  calls,          \* number of direct executor calls made so far
  rows,           \* database: monibot_transactions, in insertion order
  grants,         \* database: campaign_grants, <<campaign_id, profile_id>>
  camp,           \* database: the campaigns row of campaign "c1"
  jobs,           \* database: scheduled_jobs
  lastProcessedTweetId,  \* twitter module: since_id of the command search
  cmd,            \* per invocation: locals of the poll cycle
  cycles,         \* number of poll cycles started so far
  restarts,       \* number of process restarts so far
  scen,           \* what Twitter and the environment hold (fixed per behaviour)
  baseClient,     \* crossChainCheck.js: endpoint index baseClient is bound to
  sched           \* scheduler.js: locals of processScheduledJobs per worker

chainVars == <<tweetUsed, grantIssued, balance, allowance, routerBalance,
               routerNonce, feeRate>>
appVars == <<rows, grants, camp, jobs, lastProcessedTweetId, cmd, cycles,
             restarts, scen, baseClient, sched>>
callerVars == <<calls, appVars>>
vars == <<tweetUsed, grantIssued, balance, allowance, routerBalance,
          routerNonce, feeRate, txs, rpcIndex, clientRpc, walletRpc, pc, ex, faults,
          calls, rows, grants, camp, jobs, lastProcessedTweetId, cmd, cycles,
          restarts, scen, baseClient, sched>>

\* ------------------------------------------------------------ pure helpers

Min(a, b) == IF a < b THEN a ELSE b

\* amount.toFixed(6) then parseUnits(.., 6): round half up to whole units
ParseUnitsFixed(amount) == (amount + 5) \div 10

\* parseFloat(formatUnits(u, 6)): units to a JS number
FormatUnits(u) == u * 10

\* String.prototype.toLowerCase on the substrings of a message
LowerOf(s) ==
  CASE s = "Rate Limit" -> "rate limit"
    [] s = "Over Rate Limit" -> "over rate limit"
    [] OTHER -> s

ToLowerCase(msg) ==
  {LowerOf(s) : s \in msg} \cup
  (IF \E s \in msg : LowerOf(s) = "over rate limit" THEN {"rate limit"} ELSE {})

Includes(msg, sub) == sub \in msg

\* variant: every failure is classified as rate-limited
isRateLimitError_Any(msg) == msg # NoErr

isRateLimitError(msg) ==
  \/ Includes(msg, "429")
  \/ Includes(ToLowerCase(msg), "rate limit")
  \/ Includes(ToLowerCase(msg), "over rate limit")

currentRpc == Min(rpcIndex, RpcCount - 1)

\* variant: the index wraps around the pool
rotateRpc_Wrap(i) == (i + 1) % RpcCount

rotateRpc(i) == IF i < RpcCount - 1 THEN i + 1 ELSE i

\* variant: a 25% buffer instead of 20%
GasLimit_Quarter(gas) == gas + gas \div 4

\* const gasLimit = gas + gas / 5n
GasLimit(gas) == gas + gas \div 5

\* router.calculateFee(amountInUnits) -> fee
RouterFee(units) == (units * feeRate) \div 100

\* variant: the balance check placed before the duplicate check
P2PPreflightError_BalanceFirst(used, bal, allow, units) ==
  IF bal < units THEN {"ERROR_BALANCE"}
  ELSE IF used THEN {"ERROR_DUPLICATE_TWEET", "ERROR_DUPLICATE"}
  ELSE IF allow < units THEN {"ERROR_ALLOWANCE"}
  ELSE NoErr

\* first-match-wins pre-flight decision of executeP2PViaRouter
P2PPreflightError(used, bal, allow, units) ==
  IF used THEN {"ERROR_DUPLICATE_TWEET", "ERROR_DUPLICATE"}
  ELSE IF bal < units THEN {"ERROR_BALANCE"}
  ELSE IF allow < units THEN {"ERROR_ALLOWANCE"}
  ELSE NoErr

\* variant: the contract-balance check placed before the duplicate check
GrantPreflightError_BalanceFirst(issued, contractBal, units) ==
  IF contractBal < units THEN {"ERROR_CONTRACT_BALANCE"}
  ELSE IF issued THEN {"ERROR_DUPLICATE_GRANT", "ERROR_DUPLICATE"}
  ELSE NoErr

\* first-match-wins pre-flight decision of executeGrantViaRouter
GrantPreflightError(issued, contractBal, units) ==
  IF issued THEN {"ERROR_DUPLICATE_GRANT", "ERROR_DUPLICATE"}
  ELSE IF contractBal < units THEN {"ERROR_CONTRACT_BALANCE"}
  ELSE NoErr

\* ------------------------------------------------- router contract (chain)

\* revert reason of executeP2P(from, to, units, nonce, tweetId), NoErr if none
RouterP2PRevert(from, units, nonce, key) ==
  IF key \in tweetUsed THEN {"ERROR_DUPLICATE_TWEET", "ERROR_DUPLICATE"}
  ELSE IF nonce # routerNonce[from] THEN {"ERROR_NONCE"}
  ELSE IF balance[from] < units THEN {"ERROR_BALANCE"}
  ELSE IF allowance[from] < units THEN {"ERROR_ALLOWANCE"}
  ELSE NoErr

\* revert reason of executeGrant(to, units, campaignId), NoErr if none
RouterGrantRevert(to, units, campaignId) ==
  IF <<campaignId, to>> \in grantIssued THEN {"ERROR_DUPLICATE_GRANT", "ERROR_DUPLICATE"}
  ELSE IF routerBalance < units THEN {"ERROR_CONTRACT_BALANCE"}
  ELSE NoErr

\* variant: a mined executeP2P that leaves the nonce of the sender alone
RouterApplyP2P_SameNonce(from, to, units, key) ==
  LET debited == [balance EXCEPT ![from] = @ - units]
  IN /\ balance' = [debited EXCEPT ![to] = @ + (units - RouterFee(units))]
     /\ allowance' = [allowance EXCEPT ![from] = @ - units]
     /\ tweetUsed' = tweetUsed \cup {key}
     /\ UNCHANGED <<grantIssued, routerBalance, feeRate, routerNonce>>

\* effect of a mined executeP2P
RouterApplyP2P(from, to, units, key) ==
  LET debited == [balance EXCEPT ![from] = @ - units]
  IN /\ balance' = [debited EXCEPT ![to] = @ + (units - RouterFee(units))]
     /\ allowance' = [allowance EXCEPT ![from] = @ - units]
     /\ routerNonce' = [routerNonce EXCEPT ![from] = @ + 1]
     /\ tweetUsed' = tweetUsed \cup {key}
     /\ UNCHANGED <<grantIssued, routerBalance, feeRate>>

\* effect of a mined executeGrant
RouterApplyGrant(to, units, campaignId) ==
  /\ balance' = [balance EXCEPT ![to] = @ + (units - RouterFee(units))]
  /\ routerBalance' = routerBalance - units
  /\ grantIssued' = grantIssued \cup {<<campaignId, to>>}
  /\ UNCHANGED <<tweetUsed, allowance, routerNonce, feeRate>>

\* ----------------------------------------------------------- executor state

ExIdle ==
  [kind |-> "none", caller |-> "none", from |-> "a1", to |-> "a1",
   amount |-> 0, units |-> 0, key |-> "t1",
   nonce |-> 0, bal |-> 0, allow |-> 0, used |-> FALSE,
   fee |-> 0, gas |-> 0, hash |-> 0, revert |-> NoErr, err |-> NoErr,
   caught |-> NoErr,
   pre |-> 0, fr |-> 0, est |-> 0, wr |-> 0, rot |-> 0,
   preflightFailed |-> FALSE, via |-> -1]

\* outcomes an RPC call may have: success, or an error within the fault budget
RpcOutcomes == {NoErr} \cup (IF faults < MaxFaults THEN RpcErrors ELSE {})

Charge(r) == faults' = IF r = NoErr THEN faults ELSE faults + 1

\* variant: the failed check does not throw
AfterPreflight_NoThrow(err) == "x_fee"

\* where the executor goes after the pre-flight checks: on to the fee read,
\* or out through the throw of the first failed check
AfterPreflight(err) == IF err = NoErr THEN "x_fee" ELSE "x_thrown"

\* variant: the catch block retries whatever attempt failed
FirstAttempt_Always(at) == TRUE

\* the rotate-and-retry sits in the catch block of the first attempt only; the
\* retry itself is awaited outside any try
FirstAttempt(at) == at \in {"x_pre", "x_est"}

\* variant: the call returns as soon as writeContract has given the hash
AfterWrite_NoWait == "x_ret"

\* after writeContract the call awaits waitForTransactionReceipt
AfterWrite == "x_wait"

\* what waiting for the receipt of a transaction that reverted with reason
\* revert may do: return the receipt (its status is never looked at), or
\* throw the reason
ReceiptOutcomes(revert) == {NoErr, revert}

\* the receipt of transaction hash reaches the caller unless the wait itself
\* fails; a failed wait leaves the transaction submitted and unconfirmed
Receipt(log, hash, r) ==
  IF r = NoErr THEN [log EXCEPT ![hash].receipt = TRUE] ELSE log

\* variant: the gross amount is recorded as received
NetAmount_Gross(amount, actualFee) == amount

\* const netAmountReceived = amount - actualFee
NetAmount(amount, actualFee) == amount - actualFee

\* variant: only the read client is rebuilt
rebuildClients_ReadOnly(i, old) ==
  [publicClient |-> Min(i, RpcCount - 1), walletClient |-> old]

\* rebuildClients(): both clients are created anew on RPC_URLS[min(i, last)];
\* old is the endpoint of the discarded clients
rebuildClients(i, old) ==
  [publicClient |-> Min(i, RpcCount - 1), walletClient |-> Min(i, RpcCount - 1)]

\* rotateRpc(); rebuildClients();
RotateAndRebuild ==
  /\ rpcIndex' = rotateRpc(rpcIndex)
  /\ clientRpc' = rebuildClients(rotateRpc(rpcIndex), clientRpc).publicClient
  /\ walletRpc' = rebuildClients(rotateRpc(rpcIndex), walletRpc).walletClient

\* --------------------------------------------------- executeP2PViaRouter

\* entry of executeP2PViaRouter(fromAddress, toAddress, amount, tweetId)
EnterP2P(w, caller, from, to, amount, key) ==
  /\ pc' = [pc EXCEPT ![w] = "x_pre"]
  /\ ex' = [ex EXCEPT ![w] = [ExIdle EXCEPT !.kind = "p2p", !.caller = caller,
                                !.from = from, !.to = to, !.amount = amount,
                                !.units = ParseUnitsFixed(amount), !.key = key]]

\* runPreflight() with its rate-limit retry, then the three checks
P2PPreflight(w) ==
  /\ pc[w] \in {"x_pre", "x_pre2"}
  /\ ex[w].kind = "p2p"
  /\ UNCHANGED <<chainVars, txs, callerVars>>
  /\ \E r \in RpcOutcomes :
       /\ Charge(r)
       /\ IF r = NoErr THEN
            LET e == ex[w]
                read == [e EXCEPT !.nonce = routerNonce[e.from],
                                  !.bal = balance[e.from],
                                  !.allow = allowance[e.from],
                                  !.used = (e.key \in tweetUsed),
                                  !.pre = @ + 1, !.via = clientRpc]
                err == P2PPreflightError(read.used, read.bal, read.allow, e.units)
            IN /\ ex' = [ex EXCEPT ![w] = [read EXCEPT !.err = err,
                                             !.caught = NoErr,
                                             !.preflightFailed = (err # NoErr)]]
               /\ pc' = [pc EXCEPT ![w] = AfterPreflight(err)]
               /\ UNCHANGED <<rpcIndex, clientRpc, walletRpc>>
          ELSE IF FirstAttempt(pc[w]) /\ isRateLimitError(r) THEN
            /\ RotateAndRebuild
            /\ pc' = [pc EXCEPT ![w] = "x_pre2"]
            /\ ex' = [ex EXCEPT ![w].pre = @ + 1, ![w].via = clientRpc,
                                ![w].rot = @ + 1,
                                ![w].caught = r]
          ELSE
            /\ pc' = [pc EXCEPT ![w] = "x_thrown"]
            /\ ex' = [ex EXCEPT ![w].pre = @ + 1, ![w].via = clientRpc,
                                ![w].err = r,
                                ![w].caught = r,
                                ![w].preflightFailed = TRUE]
            /\ UNCHANGED <<rpcIndex, clientRpc, walletRpc>>

\* const [fee] = await publicClient.readContract(calculateFee)
P2PFee(w) ==
  /\ pc[w] = "x_fee"
  /\ ex[w].kind = "p2p"
  /\ UNCHANGED <<chainVars, txs, callerVars, rpcIndex, clientRpc, walletRpc>>
  /\ \E r \in RpcOutcomes :
       /\ Charge(r)
       /\ IF r = NoErr
          THEN /\ ex' = [ex EXCEPT ![w].fee = FormatUnits(RouterFee(ex[w].units)),
                                   ![w].fr = @ + 1, ![w].via = clientRpc]
               /\ pc' = [pc EXCEPT ![w] = "x_est"]
          ELSE /\ pc' = [pc EXCEPT ![w] = "x_thrown"]
               /\ ex' = [ex EXCEPT ![w].fr = @ + 1, ![w].via = clientRpc, ![w].err = r]

\* estimate() with its rate-limit retry
P2PEstimate(w) ==
  /\ pc[w] \in {"x_est", "x_est2"}
  /\ ex[w].kind = "p2p"
  /\ UNCHANGED <<chainVars, txs, callerVars>>
  /\ \E r \in RpcOutcomes :
       /\ Charge(r)
       /\ LET e == ex[w]
              revert == RouterP2PRevert(e.from, e.units, e.nonce, e.key)
          IN IF r = NoErr /\ revert = NoErr THEN
               /\ \E g \in GasValues :
                    ex' = [ex EXCEPT ![w].gas = g, ![w].est = @ + 1, ![w].via = clientRpc,
                                     
                                     ![w].caught = NoErr]
               /\ pc' = [pc EXCEPT ![w] = "x_write"]
               /\ UNCHANGED <<rpcIndex, clientRpc, walletRpc>>
             ELSE IF r = NoErr THEN
               \* the simulated call reverts: estimateContractGas throws
               /\ pc' = [pc EXCEPT ![w] = "x_thrown"]
               /\ ex' = [ex EXCEPT ![w].est = @ + 1, ![w].via = clientRpc,
                                   ![w].err = revert,
                                   ![w].caught = revert]
               /\ UNCHANGED <<rpcIndex, clientRpc, walletRpc>>
             ELSE IF FirstAttempt(pc[w]) /\ isRateLimitError(r) THEN
               /\ RotateAndRebuild
               /\ pc' = [pc EXCEPT ![w] = "x_est2"]
               /\ ex' = [ex EXCEPT ![w].est = @ + 1, ![w].via = clientRpc,
                                   ![w].rot = @ + 1,
                                   ![w].caught = r]
             ELSE
               /\ pc' = [pc EXCEPT ![w] = "x_thrown"]
               /\ ex' = [ex EXCEPT ![w].est = @ + 1, ![w].via = clientRpc,
                                   ![w].err = r,
                                   ![w].caught = r]
               /\ UNCHANGED <<rpcIndex, clientRpc, walletRpc>>

\* gasLimit = gas + gas / 5n; walletClient.writeContract(executeP2P)
P2PWrite(w) ==
  /\ pc[w] = "x_write"
  /\ ex[w].kind = "p2p"
  /\ UNCHANGED <<callerVars, rpcIndex, clientRpc, walletRpc>>
  /\ \E r \in RpcOutcomes :
       /\ Charge(r)
       /\ LET e == ex[w]
              revert == RouterP2PRevert(e.from, e.units, e.nonce, e.key)
              tx == [fn |-> "executeP2P", from |-> e.from, to |-> e.to,
                     units |-> e.units, nonce |-> e.nonce, key |-> e.key,
                     estimate |-> e.gas, attempt |-> e.est,
                     gas |-> GasLimit(e.gas), by |-> w, rpc |-> walletRpc,
                     mined |-> (revert = NoErr), receipt |-> FALSE]
          IN IF r = NoErr THEN
               /\ txs' = Append(txs, tx)
               /\ ex' = [ex EXCEPT ![w].hash = Len(txs) + 1, ![w].wr = @ + 1, ![w].via = walletRpc,
                                   
                                   ![w].revert = revert]
               /\ pc' = [pc EXCEPT ![w] = AfterWrite]
               /\ IF revert = NoErr
                  THEN RouterApplyP2P(e.from, e.to, e.units, e.key)
                  ELSE UNCHANGED chainVars
             ELSE
               /\ pc' = [pc EXCEPT ![w] = "x_thrown"]
               /\ ex' = [ex EXCEPT ![w].wr = @ + 1, ![w].via = walletRpc, ![w].err = r]
               /\ UNCHANGED <<chainVars, txs>>

\* await publicClient.waitForTransactionReceipt({ hash }); return { hash, fee }
P2PWait(w) ==
  /\ pc[w] = "x_wait"
  /\ ex[w].kind = "p2p"
  /\ UNCHANGED <<chainVars, callerVars, rpcIndex, clientRpc, walletRpc>>
  /\ \E r \in RpcOutcomes :
       /\ Charge(r)
       /\ txs' = Receipt(txs, ex[w].hash, r)
       /\ \E seen \in IF r # NoErr THEN {r} ELSE ReceiptOutcomes(ex[w].revert) :
            IF seen = NoErr
            THEN /\ pc' = [pc EXCEPT ![w] = "x_ret"]
                 /\ ex' = [ex EXCEPT ![w].via = clientRpc]
            ELSE /\ pc' = [pc EXCEPT ![w] = "x_thrown"]
                 /\ ex' = [ex EXCEPT ![w].err = seen, ![w].via = clientRpc]

\* -------------------------------------------------- executeGrantViaRouter

\* entry of executeGrantViaRouter(toAddress, amount, campaignId)
EnterGrant(w, caller, to, amount, campaignId) ==
  /\ pc' = [pc EXCEPT ![w] = "x_pre"]
  /\ ex' = [ex EXCEPT ![w] = [ExIdle EXCEPT !.kind = "grant", !.caller = caller,
                                !.to = to, !.amount = amount,
                                !.units = ParseUnitsFixed(amount), !.key = campaignId]]

\* runGrantPreflight() with its rate-limit retry, then the two checks
GrantPreflight(w) ==
  /\ pc[w] \in {"x_pre", "x_pre2"}
  /\ ex[w].kind = "grant"
  /\ UNCHANGED <<chainVars, txs, callerVars>>
  /\ \E r \in RpcOutcomes :
       /\ Charge(r)
       /\ IF r = NoErr THEN
            LET e == ex[w]
                read == [e EXCEPT !.used = (<<e.key, e.to>> \in grantIssued),
                                  !.bal = routerBalance,
                                  !.pre = @ + 1, !.via = clientRpc]
                err == GrantPreflightError(read.used, read.bal, e.units)
            IN /\ ex' = [ex EXCEPT ![w] = [read EXCEPT !.err = err,
                                             !.caught = NoErr,
                                             !.preflightFailed = (err # NoErr)]]
               /\ pc' = [pc EXCEPT ![w] = AfterPreflight(err)]
               /\ UNCHANGED <<rpcIndex, clientRpc, walletRpc>>
          ELSE IF FirstAttempt(pc[w]) /\ isRateLimitError(r) THEN
            /\ RotateAndRebuild
            /\ pc' = [pc EXCEPT ![w] = "x_pre2"]
            /\ ex' = [ex EXCEPT ![w].pre = @ + 1, ![w].via = clientRpc,
                                ![w].rot = @ + 1,
                                ![w].caught = r]
          ELSE
            /\ pc' = [pc EXCEPT ![w] = "x_thrown"]
            /\ ex' = [ex EXCEPT ![w].pre = @ + 1, ![w].via = clientRpc,
                                ![w].err = r,
                                ![w].caught = r,
                                ![w].preflightFailed = TRUE]
            /\ UNCHANGED <<rpcIndex, clientRpc, walletRpc>>

\* const [fee] = await publicClient.readContract(calculateFee)
GrantFee(w) ==
  /\ pc[w] = "x_fee"
  /\ ex[w].kind = "grant"
  /\ UNCHANGED <<chainVars, txs, callerVars, rpcIndex, clientRpc, walletRpc>>
  /\ \E r \in RpcOutcomes :
       /\ Charge(r)
       /\ IF r = NoErr
          THEN /\ ex' = [ex EXCEPT ![w].fee = FormatUnits(RouterFee(ex[w].units)),
                                   ![w].fr = @ + 1, ![w].via = clientRpc]
               /\ pc' = [pc EXCEPT ![w] = "x_est"]
          ELSE /\ pc' = [pc EXCEPT ![w] = "x_thrown"]
               /\ ex' = [ex EXCEPT ![w].fr = @ + 1, ![w].via = clientRpc, ![w].err = r]

\* estimate() with its rate-limit retry
GrantEstimate(w) ==
  /\ pc[w] \in {"x_est", "x_est2"}
  /\ ex[w].kind = "grant"
  /\ UNCHANGED <<chainVars, txs, callerVars>>
  /\ \E r \in RpcOutcomes :
       /\ Charge(r)
       /\ LET e == ex[w]
              revert == RouterGrantRevert(e.to, e.units, e.key)
          IN IF r = NoErr /\ revert = NoErr THEN
               /\ \E g \in GasValues :
                    ex' = [ex EXCEPT ![w].gas = g, ![w].est = @ + 1, ![w].via = clientRpc,
                                     
                                     ![w].caught = NoErr]
               /\ pc' = [pc EXCEPT ![w] = "x_write"]
               /\ UNCHANGED <<rpcIndex, clientRpc, walletRpc>>
             ELSE IF r = NoErr THEN
               /\ pc' = [pc EXCEPT ![w] = "x_thrown"]
               /\ ex' = [ex EXCEPT ![w].est = @ + 1, ![w].via = clientRpc,
                                   ![w].err = revert,
                                   ![w].caught = revert]
               /\ UNCHANGED <<rpcIndex, clientRpc, walletRpc>>
             ELSE IF FirstAttempt(pc[w]) /\ isRateLimitError(r) THEN
               /\ RotateAndRebuild
               /\ pc' = [pc EXCEPT ![w] = "x_est2"]
               /\ ex' = [ex EXCEPT ![w].est = @ + 1, ![w].via = clientRpc,
                                   ![w].rot = @ + 1,
                                   ![w].caught = r]
             ELSE
               /\ pc' = [pc EXCEPT ![w] = "x_thrown"]
               /\ ex' = [ex EXCEPT ![w].est = @ + 1, ![w].via = clientRpc,
                                   ![w].err = r,
                                   ![w].caught = r]
               /\ UNCHANGED <<rpcIndex, clientRpc, walletRpc>>

\* gasLimit = gas + gas / 5n; walletClient.writeContract(executeGrant)
GrantWrite(w) ==
  /\ pc[w] = "x_write"
  /\ ex[w].kind = "grant"
  /\ UNCHANGED <<callerVars, rpcIndex, clientRpc, walletRpc>>
  /\ \E r \in RpcOutcomes :
       /\ Charge(r)
       /\ LET e == ex[w]
              revert == RouterGrantRevert(e.to, e.units, e.key)
              tx == [fn |-> "executeGrant", from |-> "router", to |-> e.to,
                     units |-> e.units, nonce |-> 0, key |-> e.key,
                     estimate |-> e.gas, attempt |-> e.est,
                     gas |-> GasLimit(e.gas), by |-> w, rpc |-> walletRpc,
                     mined |-> (revert = NoErr), receipt |-> FALSE]
          IN IF r = NoErr THEN
               /\ txs' = Append(txs, tx)
               /\ ex' = [ex EXCEPT ![w].hash = Len(txs) + 1, ![w].wr = @ + 1, ![w].via = walletRpc,
                                   
                                   ![w].revert = revert]
               /\ pc' = [pc EXCEPT ![w] = AfterWrite]
               /\ IF revert = NoErr
                  THEN RouterApplyGrant(e.to, e.units, e.key)
                  ELSE UNCHANGED chainVars
             ELSE
               /\ pc' = [pc EXCEPT ![w] = "x_thrown"]
               /\ ex' = [ex EXCEPT ![w].wr = @ + 1, ![w].via = walletRpc, ![w].err = r]
               /\ UNCHANGED <<chainVars, txs>>

\* await publicClient.waitForTransactionReceipt({ hash }); return { hash, fee }
GrantWait(w) ==
  /\ pc[w] = "x_wait"
  /\ ex[w].kind = "grant"
  /\ UNCHANGED <<chainVars, callerVars, rpcIndex, clientRpc, walletRpc>>
  /\ \E r \in RpcOutcomes :
       /\ Charge(r)
       /\ txs' = Receipt(txs, ex[w].hash, r)
       /\ \E seen \in IF r # NoErr THEN {r} ELSE ReceiptOutcomes(ex[w].revert) :
            IF seen = NoErr
            THEN /\ pc' = [pc EXCEPT ![w] = "x_ret"]
                 /\ ex' = [ex EXCEPT ![w].via = clientRpc]
            ELSE /\ pc' = [pc EXCEPT ![w] = "x_thrown"]
                 /\ ex' = [ex EXCEPT ![w].err = seen, ![w].via = clientRpc]

\* ------------------------------------------- the executor called directly

DirectCallers == {"w1"}

CallP2P(w) ==
  /\ pc[w] = "idle"
  /\ calls < MaxCalls
  /\ calls' = calls + 1
  /\ \E amount \in Amounts :
       EnterP2P(w, "direct", "a1", "a2", amount, "t1")
  /\ UNCHANGED <<chainVars, txs, rpcIndex, clientRpc, walletRpc, faults, appVars>>

CallGrant(w) ==
  /\ pc[w] = "idle"
  /\ calls < MaxCalls
  /\ calls' = calls + 1
  /\ \E to \in {"a1", "a2"}, amount \in Amounts, campaignId \in Campaigns :
       EnterGrant(w, "direct", to, amount, campaignId)
  /\ UNCHANGED <<chainVars, txs, rpcIndex, clientRpc, walletRpc, faults, appVars>>

CallDone(w) ==
  /\ pc[w] \in {"x_ret", "x_thrown"}
  /\ ex[w].caller = "direct"
  /\ pc' = [pc EXCEPT ![w] = "idle"]
  /\ ex' = [ex EXCEPT ![w] = ExIdle]
  /\ UNCHANGED <<chainVars, txs, rpcIndex, clientRpc, walletRpc, faults, calls, appVars>>

\* ------------------------------------------------------------- database

\* tx_hash values are token sequences: <<"ERROR", "BALANCE">> is the string
\* ERROR_BALANCE, <<"0x", n>> is the hash of the n-th submitted transaction
TxHash(n) == <<"0x", n>>

StartsWithError(tx_hash) == Head(tx_hash) = "ERROR"

\* status computed by logTransaction from tx_hash
StatusOf(tx_hash) ==
  IF StartsWithError(tx_hash) THEN "failed"
  ELSE IF tx_hash = <<"LIMIT_REACHED">> THEN "limit_reached"
  ELSE "completed"

\* the row logTransaction inserts
\* recipient_pay_tag is the set of tags the column names: empty for null, several
\* for a joined list
LogRow(tweet, type, tx_hash, amount, fee, recipient) ==
  [tweet_id |-> tweet, type |-> type, tx_hash |-> tx_hash,
   status |-> StatusOf(tx_hash), amount |-> amount, fee |-> fee,
   recipient_pay_tag |-> recipient]

\* outcomes of a database call: success, or an error within the fault budget
DbOutcomes == {"ok"} \cup (IF faults < MaxFaults THEN {"error"} ELSE {})

ChargeDb(d) == faults' = IF d = "ok" THEN faults ELSE faults + 1

\* variant: the row is dropped
logTransaction_Dropped(row, d) == rows' = rows

\* logTransaction: the insert, whose error is only printed
logTransaction(row, d) ==
  rows' = IF d = "ok" THEN Append(rows, row) ELSE rows

\* variant: a failed query counts as already processed
checkIfCommandProcessed_FailClosed(tweet, d) ==
  d # "ok" \/ \E i \in 1..Len(rows) : rows[i].tweet_id = tweet

\* checkIfCommandProcessed: any row with this tweet_id; false on a query error
checkIfCommandProcessed(tweet, d) ==
  d = "ok" /\ \E i \in 1..Len(rows) : rows[i].tweet_id = tweet

\* checkIfAlreadyGranted: a campaign_grants row; false on a query error
checkIfAlreadyGranted(campaign, profile, d) ==
  d = "ok" /\ <<campaign, profile>> \in grants

\* markAsGranted: the insert, whose error is only printed
markAsGranted(campaign, profile, d) ==
  grants' = IF d = "ok" THEN grants \cup {<<campaign, profile>>} ELSE grants

\* profiles table: verified X usernames and pay tags; a profile is named by
\* its pay tag and owns one wallet
XUsers == {"alice"}
PayTags == {"alice", "bob", "carol", "dave", "erin"}

WalletOf(profile) ==
  CASE profile = "alice" -> "a1"
    [] profile = "bob" -> "a2"
    [] profile = "dave" -> "a4"
    [] profile = "erin" -> "a5"
    [] OTHER -> "a3"

\* getProfileByXUsername: null ("none") when absent or on a query error
getProfileByXUsername(name, d) ==
  IF d = "ok" /\ name \in XUsers THEN name ELSE "none"

\* getProfileByMonitag: null ("none") when absent or on a query error
getProfileByMonitag(tag, d) ==
  IF d = "ok" /\ tag \in PayTags THEN tag ELSE "none"

\* ------------------------------------------------------ chain view calls

\* variant: the on-chain gate never finds the marker
isTweetProcessed_Never(tweetId) == FALSE

\* isTweetProcessed(tweetId): the router's usedTweetIds flag
isTweetProcessed(tweetId) == tweetId \in tweetUsed

\* variant: the on-chain grant gate never finds the marker
isGrantAlreadyIssued_Never(campaignId, recipient) == FALSE

\* isGrantAlreadyIssued(campaignId, recipient): the router's isGrantIssued flag
isGrantAlreadyIssued(campaignId, recipient) ==
  <<campaignId, recipient>> \in grantIssued

\* --------------------------------------------------------- poll cycle state

NoTweet ==
  [quote |-> FALSE, tempo |-> FALSE, multi |-> FALSE, parsed |-> FALSE,
   amount |-> 0, target |-> "none", recipients |-> <<>>, author |-> "none"]

CmdIdle ==
  [kind |-> "none", tweet |-> "none", queue |-> <<>>, since |-> "none",
   sender |-> "none", recv |-> "none", fee |-> 0, tx_hash |-> <<"none">>,
   recipient |-> {}, logAmount |-> 0, logFee |-> 0, reason |-> "none",
   wasUsed |-> FALSE, snap |-> 0,
   grantAmount |-> 0, tags |-> <<>>, todo |-> <<>>, results |-> <<>>,
   attempted |-> <<>>,
   summary |-> [total |-> 0, success |-> 0, failed |-> 0],
   probe |-> [wallet |-> "none", amount |-> 0, firstRpc |-> -1,
              retryRpc |-> -1, failed |-> 0,
              hasBalance |-> FALSE, hasAllowance |-> FALSE]]

\* locals of processScheduledJobs: the ids of dueJobs not yet handled (the
\* head is the job of the current iteration), the attempts of the row
\* claimJob returned, the status failJob decided, and the ids for which
\* claimJob returned null
SchedIdle == [dueJobs |-> <<>>, claimed |-> -1, newStatus |-> "none", nulls |-> {}]

\* a fresh invocation record for the next item of the loop
Fresh(c, kind, tweet, queue, wasUsed) ==
  [CmdIdle EXCEPT !.kind = kind, !.tweet = tweet, !.queue = queue,
                  !.wasUsed = wasUsed]

\* the text of command tweet t as the regular expressions see it
TweetOf(t) == scen.tweet

\* continue the for-loop over the fetched items; after the campaign replies
\* mainLoop goes on to pollCommands, after the commands the cycle ends
Advance(w) ==
  LET c == cmd[w]
  IN /\ ex' = [ex EXCEPT ![w] = ExIdle]
     /\ IF c.queue # <<>> THEN
          /\ cmd' = [cmd EXCEPT ![w] =
                       Fresh(c, c.kind, Head(c.queue), Tail(c.queue),
                             IF c.kind = "cmd"
                             THEN Head(c.queue) \in tweetUsed
                             ELSE FALSE)]
          /\ pc' = [pc EXCEPT ![w] = IF c.kind = "cmd" THEN "p_db" ELSE "r_db"]
        ELSE IF c.kind = "reply" THEN
          /\ cmd' = [cmd EXCEPT ![w] = CmdIdle]
          /\ pc' = [pc EXCEPT ![w] = "m_commands"]
        ELSE
          /\ cmd' = [cmd EXCEPT ![w] = CmdIdle]
          /\ pc' = [pc EXCEPT ![w] = "m_tail"]

\* hand a row to logTransaction as the next awaited call, then return
ThenLog(w, tx_hash, recipient, amount, fee) ==
  /\ pc' = [pc EXCEPT ![w] = "log"]
  /\ cmd' = [cmd EXCEPT ![w].tx_hash = tx_hash, ![w].recipient = recipient,
                        ![w].logAmount = amount, ![w].logFee = fee]
  /\ UNCHANGED ex

\* --------------------------------------------------------- pollCommands

\* mainLoop fired by setInterval (or the immediate first call)
StartCycle(w) ==
  /\ pc[w] = "idle"
  /\ cycles < MaxCycles
  /\ cycles' = cycles + 1
  /\ pc' = [pc EXCEPT ![w] = "m_campaigns"]
  /\ UNCHANGED <<chainVars, txs, rpcIndex, clientRpc, walletRpc, ex, faults, calls, rows,
                 grants, camp, jobs, lastProcessedTweetId, cmd, restarts,
                 scen, baseClient, sched>>

\* pollCommands up to the awaited search: since_id is read before the await
PollCommandsSearch(w) ==
  /\ pc[w] = "m_commands"
  /\ IF scen.enableP2P
     THEN /\ pc' = [pc EXCEPT ![w] = "m_cmdresult"]
          /\ cmd' = [cmd EXCEPT ![w].since = lastProcessedTweetId]
     ELSE /\ pc' = [pc EXCEPT ![w] = "m_tail"]
          /\ UNCHANGED cmd
  /\ UNCHANGED <<chainVars, txs, rpcIndex, clientRpc, walletRpc, ex, faults, calls, rows,
                 grants, camp, jobs, lastProcessedTweetId, cycles, restarts,
                 scen, baseClient, sched>>

\* the search result: tweets newer than since_id; newest_id is remembered
\* before the loop over the tweets starts
PollCommandsResult(w) ==
  /\ pc[w] = "m_cmdresult"
  /\ UNCHANGED <<chainVars, txs, rpcIndex, clientRpc, walletRpc, faults, calls, rows,
                 grants, camp, jobs, cycles, restarts, scen, baseClient, sched>>
  /\ \/ \* the search throws, or returns no data
        /\ pc' = [pc EXCEPT ![w] = "m_tail"]
        /\ cmd' = [cmd EXCEPT ![w] = CmdIdle]
        /\ UNCHANGED <<ex, lastProcessedTweetId>>
     \/ /\ cmd[w].since = "none"
        /\ scen.tweet.author # "none"
        /\ lastProcessedTweetId' = "t1"
        /\ cmd' = [cmd EXCEPT ![w] =
                     Fresh(cmd[w], "cmd", "t1", <<>>, "t1" \in tweetUsed)]
        /\ pc' = [pc EXCEPT ![w] = "p_db"]
        /\ UNCHANGED ex

\* ------------------------------------------- crossChainCheck.js

\* the endpoint the catch block rebuilds baseClient on: BASE_RPC_URLS[1]
BaseRetryRpc(client) == 1

\* variant: a probe whose two reads failed reports the funds as present
FailClosed_Open(p) == [p EXCEPT !.hasBalance = TRUE, !.hasAllowance = TRUE]

\* return { hasBalance: false, hasAllowance: false, balance: 0, allowance: 0 }
FailClosed(p) == [p EXCEPT !.hasBalance = FALSE, !.hasAllowance = FALSE]

\* the result built from the two values read on the secondary chain
BaseFunds(p, bal, allow) ==
  [p EXCEPT !.hasBalance = FormatUnits(bal) >= p.amount,
            !.hasAllowance = FormatUnits(allow) >= p.amount]

\* entry of checkBaseFunds(walletAddress, amount), from locals c of the caller
EnterBaseCheck(c, walletAddress, amount) ==
  [c EXCEPT !.probe = [CmdIdle.probe EXCEPT !.wallet = walletAddress,
                                             !.amount = amount]]

\* ------------------------------------------------------ processP2PCommand

\* checkIfCommandProcessed(tweet.id), then the quote-tweet filter
P2PCheckDb(w) ==
  /\ pc[w] = "p_db"
  /\ UNCHANGED <<chainVars, txs, rpcIndex, clientRpc, walletRpc, calls, rows, grants, camp,
                 jobs, lastProcessedTweetId, cycles, restarts, scen,
                 baseClient, sched>>
  /\ \E d \in DbOutcomes :
       /\ ChargeDb(d)
       /\ IF checkIfCommandProcessed(cmd[w].tweet, d) THEN Advance(w)
          ELSE IF TweetOf(cmd[w].tweet).quote
               THEN ThenLog(w, <<"SKIP", "QUOTE_NOT_COMMAND">>, {}, 0, 0)
          ELSE /\ pc' = [pc EXCEPT ![w] = "p_chain"]
               /\ UNCHANGED <<cmd, ex>>

\* isTweetProcessed(tweet.id), then the synchronous text checks and parsing
P2PCheckChain(w) ==
  /\ pc[w] = "p_chain"
  /\ UNCHANGED <<chainVars, txs, rpcIndex, clientRpc, walletRpc, calls, rows, grants, camp,
                 jobs, lastProcessedTweetId, cycles, restarts, scen,
                 baseClient, sched>>
  /\ \E r \in RpcOutcomes :
       /\ Charge(r)
       /\ LET t == TweetOf(cmd[w].tweet)
          IN IF r # NoErr THEN Advance(w)     \* caught by the outer catch
             ELSE IF isTweetProcessed(cmd[w].tweet)
                  THEN ThenLog(w, <<"SKIP", "ALREADY_ONCHAIN">>, {}, 0, 0)
             ELSE IF t.tempo THEN ThenLog(w, <<"SKIP", "TEMPO_NETWORK">>, {}, 0, 0)
             ELSE IF t.multi /\ t.recipients # <<>>
                  THEN /\ pc' = [pc EXCEPT ![w] = "b_sender"]
                       /\ UNCHANGED <<cmd, ex>>
             ELSE IF ~t.parsed THEN ThenLog(w, <<"SKIP", "INVALID_SYNTAX">>, {}, 0, 0)
             ELSE /\ pc' = [pc EXCEPT ![w] = "p_sender"]
                  /\ UNCHANGED <<cmd, ex>>

\* getProfileByXUsername(author.username)
P2PSender(w) ==
  /\ pc[w] = "p_sender"
  /\ UNCHANGED <<chainVars, txs, rpcIndex, clientRpc, walletRpc, calls, rows, grants, camp,
                 jobs, lastProcessedTweetId, cycles, restarts, scen,
                 baseClient, sched>>
  /\ \E d \in DbOutcomes :
       /\ ChargeDb(d)
       /\ LET prof == getProfileByXUsername(TweetOf(cmd[w].tweet).author, d)
          IN IF prof = "none"
             THEN ThenLog(w, <<"ERROR", "SENDER_NOT_FOUND">>,
                          {TweetOf(cmd[w].tweet).target},
                          TweetOf(cmd[w].tweet).amount, 0)
             ELSE /\ pc' = [pc EXCEPT ![w] = "p_fee"]
                  /\ cmd' = [cmd EXCEPT ![w].sender = prof]
                  /\ UNCHANGED ex

\* const { fee, netAmount } = await calculateFee(amount)
P2PCalcFee(w) ==
  /\ pc[w] = "p_fee"
  /\ UNCHANGED <<chainVars, txs, rpcIndex, clientRpc, walletRpc, calls, rows, grants, camp,
                 jobs, lastProcessedTweetId, cycles, restarts, scen,
                 baseClient, sched>>
  /\ \E r \in RpcOutcomes :
       /\ Charge(r)
       /\ IF r # NoErr THEN Advance(w)
          ELSE /\ pc' = [pc EXCEPT ![w] = "p_allow"]
               /\ cmd' = [cmd EXCEPT ![w].fee =
                     FormatUnits(RouterFee(ParseUnitsFixed(TweetOf(cmd[w].tweet).amount)))]
               /\ UNCHANGED ex

\* getOnchainAllowance(sender wallet) and the allowance check
P2PAllowance(w) ==
  /\ pc[w] = "p_allow"
  /\ UNCHANGED <<chainVars, txs, rpcIndex, clientRpc, walletRpc, calls, rows, grants, camp,
                 jobs, lastProcessedTweetId, cycles, restarts, scen,
                 baseClient, sched>>
  /\ \E r \in RpcOutcomes :
       /\ Charge(r)
       /\ IF r # NoErr THEN Advance(w)
          ELSE IF FormatUnits(allowance[WalletOf(cmd[w].sender)])
                    < TweetOf(cmd[w].tweet).amount
          THEN /\ pc' = [pc EXCEPT ![w] = "p_base"]
               /\ cmd' = [cmd EXCEPT ![w] =
                            EnterBaseCheck([@ EXCEPT !.reason = "allowance"],
                                           WalletOf(cmd[w].sender),
                                           TweetOf(cmd[w].tweet).amount)]
               /\ UNCHANGED ex
          ELSE /\ pc' = [pc EXCEPT ![w] = "p_bal"]
               /\ UNCHANGED <<cmd, ex>>

\* getUSDTBalance(sender wallet) and the balance check
P2PBalance(w) ==
  /\ pc[w] = "p_bal"
  /\ UNCHANGED <<chainVars, txs, rpcIndex, clientRpc, walletRpc, calls, rows, grants, camp,
                 jobs, lastProcessedTweetId, cycles, restarts, scen,
                 baseClient, sched>>
  /\ \E r \in RpcOutcomes :
       /\ Charge(r)
       /\ IF r # NoErr THEN Advance(w)
          ELSE IF FormatUnits(balance[WalletOf(cmd[w].sender)])
                    < TweetOf(cmd[w].tweet).amount
          THEN /\ pc' = [pc EXCEPT ![w] = "p_base"]
               /\ cmd' = [cmd EXCEPT ![w] =
                            EnterBaseCheck([@ EXCEPT !.reason = "balance"],
                                           WalletOf(cmd[w].sender),
                                           TweetOf(cmd[w].tweet).amount)]
               /\ UNCHANGED ex
          ELSE /\ pc' = [pc EXCEPT ![w] = "p_recv"]
               /\ UNCHANGED <<cmd, ex>>

\* the first Promise.all of balanceOf and allowance, on the endpoint
\* baseClient is bound to; a failure rebuilds baseClient in the catch block.
\* What the secondary chain holds is outside this chain's state.
BaseFirstRead(w) ==
  /\ pc[w] = "p_base"
  /\ UNCHANGED <<chainVars, txs, rpcIndex, clientRpc, walletRpc, calls, rows, grants, camp,
                 jobs, lastProcessedTweetId, cycles, restarts, scen, faults, ex,
                 sched>>
  /\ LET p == [cmd[w].probe EXCEPT !.firstRpc = baseClient]
     IN \/ \E bal \in 0..MaxBal, allow \in 0..MaxBal :
             /\ cmd' = [cmd EXCEPT ![w].probe = BaseFunds(p, bal, allow)]
             /\ pc' = [pc EXCEPT ![w] = "p_based"]
             /\ UNCHANGED baseClient
        \/ /\ cmd' = [cmd EXCEPT ![w].probe = [p EXCEPT !.failed = 1]]
           /\ baseClient' = BaseRetryRpc(baseClient)
           /\ pc' = [pc EXCEPT ![w] = "p_base2"]

\* the second Promise.all, inside the catch block; its failure is caught and
\* answered with the all-false result
BaseRetryRead(w) ==
  /\ pc[w] = "p_base2"
  /\ UNCHANGED <<chainVars, txs, rpcIndex, clientRpc, walletRpc, calls, rows, grants, camp,
                 jobs, lastProcessedTweetId, cycles, restarts, scen, faults, ex,
                 baseClient, sched>>
  /\ pc' = [pc EXCEPT ![w] = "p_based"]
  /\ LET p == [cmd[w].probe EXCEPT !.retryRpc = baseClient]
     IN \/ \E bal \in 0..MaxBal, allow \in 0..MaxBal :
             cmd' = [cmd EXCEPT ![w].probe = BaseFunds(p, bal, allow)]
        \/ cmd' = [cmd EXCEPT ![w].probe = FailClosed([p EXCEPT !.failed = 2])]

\* back in processP2PCommand with baseCheck: defer to the secondary chain
\* when it reports both, else log the primary-chain error
P2PBaseCheck(w) ==
  /\ pc[w] = "p_based"
  /\ cmd[w].kind = "cmd"
  /\ UNCHANGED <<chainVars, txs, rpcIndex, clientRpc, walletRpc, calls, rows, grants, camp,
                 jobs, lastProcessedTweetId, cycles, restarts, scen, faults,
                 baseClient, sched>>
  /\ IF cmd[w].probe.hasBalance /\ cmd[w].probe.hasAllowance
     THEN /\ pc' = [pc EXCEPT ![w] = "p_job"]
          /\ UNCHANGED <<cmd, ex>>
     ELSE ThenLog(w, IF cmd[w].reason = "allowance"
                     THEN <<"ERROR", "ALLOWANCE">>
                     ELSE <<"ERROR", "BALANCE">>,
                  {TweetOf(cmd[w].tweet).target},
                  TweetOf(cmd[w].tweet).amount, cmd[w].fee)

\* createScheduledJob({type: 'cross_chain_p2p', ...}): throws on an insert error
P2PDefer(w) ==
  /\ pc[w] = "p_job"
  /\ UNCHANGED <<chainVars, txs, rpcIndex, clientRpc, walletRpc, calls, rows, grants, camp,
                 lastProcessedTweetId, cycles, restarts, scen, baseClient, sched>>
  /\ \E d \in DbOutcomes :
       /\ ChargeDb(d)
       /\ IF d # "ok"
          THEN /\ Advance(w)
               /\ UNCHANGED jobs
          ELSE /\ jobs' = Append(jobs, [type |-> "cross_chain_p2p",
                                         tweet |-> cmd[w].tweet,
                                         status |-> "pending", attempts |-> 0])
               /\ ThenLog(w, <<"DEFERRED_TO_BASE">>, {TweetOf(cmd[w].tweet).target}, 0, 0)

\* getProfileByMonitag(target) || getProfileByXUsername(target), then the
\* call of executeP2PViaRouter
P2PReceiver(w) ==
  /\ pc[w] = "p_recv"
  /\ UNCHANGED <<chainVars, txs, rpcIndex, clientRpc, walletRpc, calls, rows, grants, camp,
                 jobs, lastProcessedTweetId, cycles, restarts, scen,
                 baseClient, sched>>
  /\ \E d1 \in DbOutcomes :
       /\ ChargeDb(d1)
       /\ LET t == TweetOf(cmd[w].tweet)
              byTag == getProfileByMonitag(t.target, d1)
              prof == IF byTag # "none" THEN byTag
                      ELSE getProfileByXUsername(t.target, "ok")
          IN IF prof = "none"
             THEN ThenLog(w, <<"ERROR", "TARGET_NOT_FOUND">>, {t.target},
                          t.amount, cmd[w].fee)
             ELSE /\ cmd' = [cmd EXCEPT ![w].recv = prof]
                  /\ EnterP2P(w, "p2p", WalletOf(cmd[w].sender), WalletOf(prof),
                              t.amount, cmd[w].tweet)

\* error code chosen by the catch block around executeP2PViaRouter
P2PErrorCode(msg) ==
  IF Includes(msg, "ERROR_DUPLICATE_TWEET") THEN <<"ERROR", "DUPLICATE_TWEET">>
  ELSE IF Includes(msg, "ERROR_BALANCE") THEN <<"ERROR", "BALANCE">>
  ELSE IF Includes(msg, "ERROR_ALLOWANCE") THEN <<"ERROR", "ALLOWANCE">>
  ELSE <<"ERROR", "BLOCKCHAIN">>

\* the executor returned {hash, fee}: logTransaction of the success row
P2PSuccess(w) ==
  /\ pc[w] = "x_ret"
  /\ ex[w].caller = "p2p"
  /\ UNCHANGED <<chainVars, txs, rpcIndex, clientRpc, walletRpc, calls, grants, camp,
                 jobs, lastProcessedTweetId, cycles, restarts, scen,
                 baseClient, sched, cmd, ex>>
  /\ \E d \in DbOutcomes :
       /\ ChargeDb(d)
       /\ logTransaction(LogRow(cmd[w].tweet, "p2p_command", TxHash(ex[w].hash),
                                NetAmount(ex[w].amount, ex[w].fee), ex[w].fee,
                                {cmd[w].recv}), d)
       /\ pc' = [pc EXCEPT ![w] = "p_sync"]

\* syncToMainLedger: a POST whose failure is only printed
P2PSyncLedger(w) ==
  /\ pc[w] = "p_sync"
  /\ UNCHANGED <<chainVars, txs, rpcIndex, clientRpc, walletRpc, calls, rows, grants, camp,
                 jobs, lastProcessedTweetId, cycles, restarts, scen,
                 baseClient, sched, faults>>
  /\ Advance(w)

\* the executor threw: logTransaction of the classified error code
P2PFailure(w) ==
  /\ pc[w] = "x_thrown"
  /\ ex[w].caller = "p2p"
  /\ UNCHANGED <<chainVars, txs, rpcIndex, clientRpc, walletRpc, calls, grants, camp,
                 jobs, lastProcessedTweetId, cycles, restarts, scen,
                 baseClient, sched>>
  /\ \E d \in DbOutcomes :
       /\ ChargeDb(d)
       /\ logTransaction(LogRow(cmd[w].tweet, "p2p_command",
                                P2PErrorCode(ex[w].err),
                                TweetOf(cmd[w].tweet).amount, cmd[w].fee,
                                {cmd[w].recv}), d)
       /\ Advance(w)

\* await logTransaction({... tx_hash ...}); return;
LogOutcome(w) ==
  /\ pc[w] = "log"
  /\ UNCHANGED <<chainVars, txs, rpcIndex, clientRpc, walletRpc, calls, grants, camp,
                 jobs, lastProcessedTweetId, cycles, restarts, scen,
                 baseClient, sched>>
  /\ \E d \in DbOutcomes :
       /\ ChargeDb(d)
       /\ logTransaction(LogRow(cmd[w].tweet,
                                IF cmd[w].kind = "cmd" THEN "p2p_command" ELSE "grant",
                                cmd[w].tx_hash, cmd[w].logAmount, cmd[w].logFee,
                                cmd[w].recipient), d)
       /\ Advance(w)

\* ------------------------------------------------ executeMultiRecipientP2P

\* elements of a sequence, and the subsequence passing a test
Range(seq) == {seq[i] : i \in 1..Len(seq)}

RECURSIVE Without(_, _)
Without(seq, drop) ==
  IF seq = <<>> THEN <<>>
  ELSE IF Head(seq) \in drop THEN Without(Tail(seq), drop)
  ELSE <<Head(seq)>> \o Without(Tail(seq), drop)

\* one failed entry of results per tag, in order
RECURSIVE Failed(_, _)
Failed(tags, reason) ==
  IF tags = <<>> THEN <<>>
  ELSE <<[tag |-> Head(tags), status |-> "failed", reason |-> reason, hash |-> 0]>>
       \o Failed(Tail(tags), reason)

\* variant: the key also carries the run of the process that built it
UniqueTweetId_PerRun(tweetId, tag) ==
  CASE tag = "bob" -> IF restarts = 0 THEN "t1_bob" ELSE "t1_bob_2"
    [] tag = "carol" -> IF restarts = 0 THEN "t1_carol" ELSE "t1_carol_2"
    [] tag = "dave" -> IF restarts = 0 THEN "t1_dave" ELSE "t1_dave_2"
    [] tag = "erin" -> IF restarts = 0 THEN "t1_erin" ELSE "t1_erin_2"
    [] tag = "ghost" -> IF restarts = 0 THEN "t1_ghost" ELSE "t1_ghost_2"
    [] OTHER -> IF restarts = 0 THEN "t1_alice" ELSE "t1_alice_2"

\* variant: every recipient of the batch is sent under the tweet id itself
UniqueTweetId_Base(tweetId, tag) == tweetId

\* `${tweetId}_${tag}`: tweet ids are digit strings and tags hold no other
\* tweet id, so the concatenation is one-to-one in the tag
UniqueTweetId(tweetId, tag) ==
  CASE tag = "bob" -> "t1_bob"
    [] tag = "carol" -> "t1_carol"
    [] tag = "dave" -> "t1_dave"
    [] tag = "erin" -> "t1_erin"
    [] tag = "ghost" -> "t1_ghost"
    [] OTHER -> "t1_alice"

SuccessCount(results) ==
  Cardinality({i \in 1..Len(results) : results[i].status = "success"})

\* variant: the early returns count only the failures past the self-send filter
EarlySummary_PastFilter(recipientTags, results) ==
  [total |-> Len(recipientTags), success |-> 0,
   failed |-> Cardinality({i \in 1..Len(results) :
                             results[i].reason # "Cannot send to yourself"})]

\* the summary of the three early returns: nothing was executed
EarlySummary(recipientTags, results) ==
  [total |-> Len(recipientTags), success |-> 0, failed |-> Len(results)]

\* variant: total counts only the tags that passed the self-send filter
Summary_Filtered(recipientTags, results) ==
  [total |-> Cardinality({i \in 1..Len(results) :
                            results[i].reason # "Cannot send to yourself"}),
   success |-> SuccessCount(results),
   failed |-> Len(results) - SuccessCount(results)]

\* the summary returned after the execution loop
Summary(recipientTags, results) ==
  [total |-> Len(recipientTags),
   success |-> SuccessCount(results),
   failed |-> Len(results) - SuccessCount(results)]

\* the for-loop over resolvedRecipients: call the executor for the next one,
\* or return { results, summary } to processP2PCommand
BatchContinue(w, c) ==
  /\ cmd' = [cmd EXCEPT ![w] =
              IF c.todo = <<>>
              THEN [c EXCEPT !.summary =
                      Summary(TweetOf(c.tweet).recipients, c.results)]
              ELSE [c EXCEPT !.attempted = Append(@, Head(c.todo))]]
  /\ IF c.todo = <<>>
     THEN /\ pc' = [pc EXCEPT ![w] = "b_return"]
          /\ ex' = [ex EXCEPT ![w] = ExIdle]
     ELSE EnterP2P(w, "batch", WalletOf(c.sender), WalletOf(Head(c.todo)),
                   TweetOf(c.tweet).amount, UniqueTweetId(c.tweet, Head(c.todo)))

\* variant: the self-send filter lets every tag through
SelfTags_None(recipientTags, senderProfile) == {}

\* the tags the self-send filter removes: the sender's own pay tag / X username
SelfTags(recipientTags, senderProfile) == Range(recipientTags) \cap {senderProfile}

\* the pairs <<balance, amount>> whose quotient in doubles falls just below
\* the exact integer quotient, and whose product amount * (balance / amount)
\* lands just above the balance: 0.3, 0.6 and 0.7 against 0.1
InexactPairs == {<<30, 10>>, <<60, 10>>, <<70, 10>>}

\* balance < amount * n, the product taken in doubles
BalanceBelowTotal(bal, amount, n) ==
  \/ bal < amount * n
  \/ (<<bal, amount>> \in InexactPairs /\ bal = amount * n)

\* Math.floor(balance / amount), the quotient taken in doubles
AffordableCount(bal, amount) ==
  IF <<bal, amount>> \in InexactPairs
  THEN bal \div amount - 1
  ELSE bal \div amount

\* variant: the allowance is never found short
AllowanceShort_Never(allow, amount) == FALSE

\* if (allowance < amount)
AllowanceShort(allow, amount) == allow < amount

\* variant: a tag without profile is queued for execution all the same
Resolved_All(todo, prof) == Append(todo, prof)

\* resolvedRecipients.push({ tag, profile }) for a tag that has a profile
Resolved(todo, prof) == IF prof = "none" THEN todo ELSE Append(todo, prof)

\* getProfileByXUsername(author.username) of the multi-recipient branch, then
\* the self-send filter at the start of executeMultiRecipientP2P
BatchSender(w) ==
  /\ pc[w] = "b_sender"
  /\ UNCHANGED <<chainVars, txs, rpcIndex, clientRpc, walletRpc, calls, rows, grants, camp,
                 jobs, lastProcessedTweetId, cycles, restarts, scen,
                 baseClient, sched>>
  /\ \E d \in DbOutcomes :
       /\ ChargeDb(d)
       /\ LET t == TweetOf(cmd[w].tweet)
              prof == getProfileByXUsername(t.author, d)
              self == SelfTags(t.recipients, prof)
              filtered == Without(t.recipients, self)
              results == Failed(Without(t.recipients, Range(filtered)),
                                "Cannot send to yourself")
          IN IF prof = "none"
             THEN ThenLog(w, <<"ERROR", "SENDER_NOT_FOUND">>, Range(t.recipients),
                          t.amount * Len(t.recipients), 0)
             ELSE /\ pc' = [pc EXCEPT ![w] =
                              IF filtered = <<>> THEN "b_return" ELSE "b_funds"]
                  /\ cmd' = [cmd EXCEPT ![w].sender = prof, ![w].tags = filtered,
                                        ![w].results = results,
                                        ![w].summary =
                                          IF filtered = <<>>
                                          THEN EarlySummary(t.recipients, results)
                                          ELSE @]
                  /\ UNCHANGED ex

\* Promise.all([getUSDCBalance, getOnchainAllowance]) and the batch-wide
\* balance and allowance checks
BatchFunds(w) ==
  /\ pc[w] = "b_funds"
  /\ UNCHANGED <<chainVars, txs, rpcIndex, clientRpc, walletRpc, calls, rows, grants, camp,
                 jobs, lastProcessedTweetId, cycles, restarts, scen,
                 baseClient, sched>>
  /\ \E r \in RpcOutcomes :
       /\ Charge(r)
       /\ LET c == cmd[w]
              amount == TweetOf(c.tweet).amount
              bal == FormatUnits(balance[WalletOf(c.sender)])
              allow == FormatUnits(allowance[WalletOf(c.sender)])
              short == BalanceBelowTotal(bal, amount, Len(c.tags))
              affordableCount == AffordableCount(bal, amount)
              kept == IF short
                      THEN SubSeq(c.tags, 1, affordableCount) ELSE c.tags
              skipped == IF short
                         THEN SubSeq(c.tags, affordableCount + 1, Len(c.tags))
                         ELSE <<>>
              noBalance == c.results \o Failed(c.tags, "Insufficient balance")
              noAllowance ==
                c.results \o Failed(skipped, "Insufficient balance (batch limit)")
                          \o Failed(kept, "Insufficient allowance")
          IN IF r # NoErr THEN Advance(w)    \* thrown through to the outer catch
             ELSE IF short /\ affordableCount = 0
             THEN /\ cmd' = [cmd EXCEPT
                               ![w].results = noBalance,
                               ![w].summary =
                                 EarlySummary(TweetOf(c.tweet).recipients,
                                              noBalance)]
                  /\ pc' = [pc EXCEPT ![w] = "b_return"]
                  /\ UNCHANGED ex
             ELSE IF AllowanceShort(allow, amount)
             THEN /\ cmd' = [cmd EXCEPT
                               ![w].results = noAllowance,
                               ![w].summary =
                                 EarlySummary(TweetOf(c.tweet).recipients,
                                              noAllowance)]
                  /\ pc' = [pc EXCEPT ![w] = "b_return"]
                  /\ UNCHANGED ex
             ELSE /\ cmd' = [cmd EXCEPT ![w].results =
                               @ \o Failed(skipped, "Insufficient balance (batch limit)"),
                                     ![w].tags = kept]
                  /\ pc' = [pc EXCEPT ![w] = "b_resolve"]
                  /\ UNCHANGED ex

\* getProfileByMonitag(tag) || getProfileByXUsername(tag) for the next tag;
\* after the last tag the execution loop starts
BatchResolve(w) ==
  /\ pc[w] = "b_resolve"
  /\ UNCHANGED <<chainVars, txs, rpcIndex, clientRpc, walletRpc, calls, rows, grants, camp,
                 jobs, lastProcessedTweetId, cycles, restarts, scen,
                 baseClient, sched>>
  /\ \E d \in DbOutcomes :
       /\ ChargeDb(d)
       /\ LET c == cmd[w]
              tag == Head(c.tags)
              byTag == getProfileByMonitag(tag, d)
              prof == IF byTag # "none" THEN byTag
                      ELSE getProfileByXUsername(tag, "ok")
              c2 == [c EXCEPT !.tags = Tail(c.tags),
                              !.todo = Resolved(@, prof),
                              !.results = IF prof = "none"
                                          THEN @ \o Failed(<<tag>>, "Monitag not found")
                                          ELSE @]
          IN IF c2.tags # <<>>
             THEN /\ cmd' = [cmd EXCEPT ![w] = c2]
                  /\ UNCHANGED <<pc, ex>>
             ELSE BatchContinue(w, c2)

\* the executor returned for one recipient: logTransaction of its success row
BatchSuccess(w) ==
  /\ pc[w] = "x_ret"
  /\ ex[w].caller = "batch"
  /\ UNCHANGED <<chainVars, txs, rpcIndex, clientRpc, walletRpc, calls, grants, camp,
                 jobs, lastProcessedTweetId, cycles, restarts, scen,
                 baseClient, sched, cmd, ex>>
  /\ \E d \in DbOutcomes :
       /\ ChargeDb(d)
       /\ logTransaction(LogRow(cmd[w].tweet, "p2p_command", TxHash(ex[w].hash),
                                NetAmount(ex[w].amount, ex[w].fee), ex[w].fee,
                                {Head(cmd[w].todo)}), d)
       /\ pc' = [pc EXCEPT ![w] = "b_sync"]

\* syncToMainLedger, results.push(success), next recipient
BatchSyncLedger(w) ==
  /\ pc[w] = "b_sync"
  /\ UNCHANGED <<chainVars, txs, rpcIndex, clientRpc, walletRpc, calls, rows, grants, camp,
                 jobs, lastProcessedTweetId, cycles, restarts, scen,
                 baseClient, sched, faults>>
  /\ LET c == cmd[w]
     IN BatchContinue(w, [c EXCEPT !.todo = Tail(c.todo),
                            !.results = Append(@, [tag |-> Head(c.todo),
                                                   status |-> "success",
                                                   reason |-> "none",
                                                   hash |-> ex[w].hash])])

\* variant: every failure gets the generic reason
BatchReason_Generic(msg) == "Transaction failed"

\* reason chosen by the catch block of the execution loop
BatchReason(msg) ==
  IF Includes(msg, "ERROR_BALANCE") THEN "Insufficient balance"
  ELSE IF Includes(msg, "ERROR_ALLOWANCE") THEN "Insufficient allowance"
  ELSE IF Includes(msg, "ERROR_DUPLICATE") THEN "Already processed"
  ELSE "Transaction failed"

\* txError.message.split(':')[0], the tail of the ERROR_BATCH_ code
MessageHead(msg) ==
  IF Includes(msg, "ERROR_DUPLICATE_TWEET") THEN "ERROR_DUPLICATE_TWEET"
  ELSE IF Includes(msg, "ERROR_BALANCE") THEN "ERROR_BALANCE"
  ELSE IF Includes(msg, "ERROR_ALLOWANCE") THEN "ERROR_ALLOWANCE"
  ELSE "message"

\* the executor threw for one recipient: logTransaction of the failure row;
\* a balance or allowance failure stops the batch
BatchFailure(w) ==
  /\ pc[w] = "x_thrown"
  /\ ex[w].caller = "batch"
  /\ UNCHANGED <<chainVars, txs, rpcIndex, clientRpc, walletRpc, calls, grants, camp,
                 jobs, lastProcessedTweetId, cycles, restarts, scen,
                 baseClient, sched>>
  /\ \E d \in DbOutcomes :
       /\ ChargeDb(d)
       /\ LET c == cmd[w]
              reason == BatchReason(ex[w].err)
              stop == reason \in {"Insufficient balance", "Insufficient allowance"}
              stopReason == IF reason = "Insufficient balance"
                            THEN "Insufficient balance (batch stopped)"
                            ELSE "Insufficient allowance (batch stopped)"
              rest == Tail(c.todo)
          IN /\ logTransaction(LogRow(c.tweet, "p2p_command",
                                      <<"ERROR", "BATCH", MessageHead(ex[w].err)>>,
                                      TweetOf(c.tweet).amount, 0,
                                      {Head(c.todo)}), d)
             /\ BatchContinue(w,
                  [c EXCEPT !.todo = IF stop THEN <<>> ELSE rest,
                            !.results =
                              Append(@, [tag |-> Head(c.todo), status |-> "failed",
                                         reason |-> reason, hash |-> 0])
                              \o (IF stop THEN Failed(rest, stopReason) ELSE <<>>)])

\* back in processP2PCommand: one summary row when nothing succeeded
BatchReturn(w) ==
  /\ pc[w] = "b_return"
  /\ UNCHANGED <<chainVars, txs, rpcIndex, clientRpc, walletRpc, calls, grants, camp,
                 jobs, lastProcessedTweetId, cycles, restarts, scen,
                 baseClient, sched>>
  /\ LET c == cmd[w]
     IN IF c.summary.success = 0
        THEN \E d \in DbOutcomes :
               /\ ChargeDb(d)
               /\ logTransaction(LogRow(c.tweet, "p2p_command",
                                        <<"ERROR", "BATCH", c.results[1].reason>>,
                                        TweetOf(c.tweet).amount
                                          * Len(TweetOf(c.tweet).recipients), 0,
                                        Range(TweetOf(c.tweet).recipients)), d)
               /\ Advance(w)
        ELSE /\ UNCHANGED <<faults, rows>>
             /\ Advance(w)

\* ---------------------------------------------------------- pollCampaigns

Replies == <<"r1", "r2">>

\* max_participants || 999999
MaxParticipants(c) == IF c.max_participants = 0 THEN 999999 ELSE c.max_participants

\* getActiveCampaigns() and the per-campaign participant filter
PollCampaigns(w) ==
  /\ pc[w] = "m_campaigns"
  /\ UNCHANGED <<chainVars, txs, rpcIndex, clientRpc, walletRpc, ex, calls, rows, grants,
                 camp, jobs, lastProcessedTweetId, cmd, cycles, restarts,
                 scen, baseClient, sched>>
  /\ \E d \in DbOutcomes :
       /\ ChargeDb(d)
       /\ pc' = [pc EXCEPT ![w] =
            IF /\ scen.enableCampaigns
               /\ d = "ok"
               /\ camp.status = "active"
               /\ camp.current_participants < MaxParticipants(camp)
            THEN "m_replies" ELSE "m_commands"]

\* processCampaignReplies: the conversation search, which has no since_id,
\* then the loop over the replies
CampaignSearch(w) ==
  /\ pc[w] = "m_replies"
  /\ UNCHANGED <<chainVars, txs, rpcIndex, clientRpc, walletRpc, ex, faults, calls, rows,
                 grants, camp, jobs, lastProcessedTweetId, cycles, restarts,
                 scen, baseClient, sched>>
  /\ \E found \in BOOLEAN :
       IF found /\ scen.replies # <<>>
       THEN /\ cmd' = [cmd EXCEPT ![w] =
                         Fresh(cmd[w], "reply", Head(scen.replies),
                               Tail(scen.replies), FALSE)]
            /\ pc' = [pc EXCEPT ![w] = "r_db"]
       ELSE /\ cmd' = [cmd EXCEPT ![w] = CmdIdle]
            /\ pc' = [pc EXCEPT ![w] = "m_commands"]

\* processReply: checkIfCommandProcessed(reply.id), then extractFirstPayTag
ReplyCheckDb(w) ==
  /\ pc[w] = "r_db"
  /\ UNCHANGED <<chainVars, txs, rpcIndex, clientRpc, walletRpc, calls, rows, grants, camp,
                 jobs, lastProcessedTweetId, cycles, restarts, scen,
                 baseClient, sched>>
  /\ \E d \in DbOutcomes :
       /\ ChargeDb(d)
       /\ IF checkIfCommandProcessed(cmd[w].tweet, d) THEN Advance(w)
          ELSE IF scen.replyTag[cmd[w].tweet] = "none"
               THEN ThenLog(w, <<"SKIP", "NO_PAYTAG">>, {}, 0, 0)
          ELSE /\ pc' = [pc EXCEPT ![w] = "g_profile"]
               /\ UNCHANGED <<cmd, ex>>

\* ---------------------------------------------------- processGrantForPayTag

\* getProfileByMonitag(payTag)
GrantProfile(w) ==
  /\ pc[w] = "g_profile"
  /\ UNCHANGED <<chainVars, txs, rpcIndex, clientRpc, walletRpc, calls, rows, grants, camp,
                 jobs, lastProcessedTweetId, cycles, restarts, scen,
                 baseClient, sched>>
  /\ \E d \in DbOutcomes :
       /\ ChargeDb(d)
       /\ LET prof == getProfileByMonitag(scen.replyTag[cmd[w].tweet], d)
          IN IF prof = "none"
             THEN ThenLog(w, <<"ERROR", "TARGET_NOT_FOUND">>,
                          {scen.replyTag[cmd[w].tweet]}, 0, 0)
             ELSE /\ pc' = [pc EXCEPT ![w] = "g_camp"]
                  /\ cmd' = [cmd EXCEPT ![w].recv = prof,
                               ![w].wasUsed =
                                 (<<"c1", WalletOf(prof)>> \in grantIssued)]
                  /\ UNCHANGED ex

\* getCampaignByTweetId(campaign.tweet_id) and the participant limit
GrantCampaign(w) ==
  /\ pc[w] = "g_camp"
  /\ UNCHANGED <<chainVars, txs, rpcIndex, clientRpc, walletRpc, calls, rows, grants, camp,
                 jobs, lastProcessedTweetId, cycles, restarts, scen,
                 baseClient, sched>>
  /\ \E d \in DbOutcomes :
       /\ ChargeDb(d)
       /\ IF d # "ok" \/ camp.status # "active"
          THEN ThenLog(w, <<"SKIP", "CAMPAIGN_INACTIVE">>, {cmd[w].recv}, 0, 0)
          ELSE IF camp.current_participants >= MaxParticipants(camp)
          THEN ThenLog(w, <<"LIMIT_REACHED">>, {cmd[w].recv}, 0, 0)
          ELSE /\ pc' = [pc EXCEPT ![w] = "g_db"]
               /\ cmd' = [cmd EXCEPT ![w].grantAmount = camp.grant_amount]
               /\ UNCHANGED ex

\* checkIfAlreadyGranted(campaign.tweet_id, targetProfile.id)
GrantCheckDb(w) ==
  /\ pc[w] = "g_db"
  /\ UNCHANGED <<chainVars, txs, rpcIndex, clientRpc, walletRpc, calls, rows, grants, camp,
                 jobs, lastProcessedTweetId, cycles, restarts, scen,
                 baseClient, sched>>
  /\ \E d \in DbOutcomes :
       /\ ChargeDb(d)
       /\ IF checkIfAlreadyGranted("c1", cmd[w].recv, d)
          THEN ThenLog(w, <<"SKIP", "DUPLICATE_GRANT_DB">>, {cmd[w].recv}, 0, 0)
          ELSE /\ pc' = [pc EXCEPT ![w] = "g_chain"]
               /\ UNCHANGED <<cmd, ex>>

\* isGrantAlreadyIssued(campaign.tweet_id, targetProfile.wallet_address)
GrantCheckChain(w) ==
  /\ pc[w] = "g_chain"
  /\ UNCHANGED <<chainVars, txs, rpcIndex, clientRpc, walletRpc, calls, rows, grants, camp,
                 jobs, lastProcessedTweetId, cycles, restarts, scen,
                 baseClient, sched>>
  /\ \E r \in RpcOutcomes :
       /\ Charge(r)
       /\ IF r # NoErr THEN Advance(w)       \* caught by the outer catch
          ELSE /\ pc' = [pc EXCEPT ![w] =
                    IF isGrantAlreadyIssued("c1", WalletOf(cmd[w].recv))
                    THEN "g_syncmark" ELSE "g_fee"]
               /\ UNCHANGED <<cmd, ex>>

\* the marker was found on-chain: markAsGranted, then the skip row
GrantSyncMark(w) ==
  /\ pc[w] = "g_syncmark"
  /\ UNCHANGED <<chainVars, txs, rpcIndex, clientRpc, walletRpc, calls, rows, camp,
                 jobs, lastProcessedTweetId, cycles, restarts, scen,
                 baseClient, sched>>
  /\ \E d \in DbOutcomes :
       /\ ChargeDb(d)
       /\ markAsGranted("c1", cmd[w].recv, d)
       /\ ThenLog(w, <<"SKIP", "DUPLICATE_GRANT_ONCHAIN">>, {cmd[w].recv}, 0, 0)

\* calculateFee(grantAmount), then the call of executeGrantViaRouter
GrantCalcFee(w) ==
  /\ pc[w] = "g_fee"
  /\ UNCHANGED <<chainVars, txs, rpcIndex, clientRpc, walletRpc, calls, rows, grants, camp,
                 jobs, lastProcessedTweetId, cycles, restarts, scen,
                 baseClient, sched>>
  /\ \E r \in RpcOutcomes :
       /\ Charge(r)
       /\ IF r # NoErr THEN Advance(w)
          ELSE /\ UNCHANGED cmd
               /\ EnterGrant(w, "reply", WalletOf(cmd[w].recv),
                             cmd[w].grantAmount, "c1")

\* error code chosen by the catch block around executeGrantViaRouter
GrantErrorCode(msg) ==
  IF Includes(msg, "ERROR_DUPLICATE_GRANT") THEN <<"ERROR", "DUPLICATE_GRANT">>
  ELSE IF Includes(msg, "ERROR_CONTRACT_BALANCE") \/ Includes(msg, "insufficient")
       THEN <<"ERROR", "TREASURY_EMPTY">>
  ELSE <<"ERROR", "BLOCKCHAIN">>

\* the executor returned {hash, fee}: logTransaction of the success row
GrantSuccess(w) ==
  /\ pc[w] = "x_ret"
  /\ ex[w].caller = "reply"
  /\ UNCHANGED <<chainVars, txs, rpcIndex, clientRpc, walletRpc, calls, grants, camp,
                 jobs, lastProcessedTweetId, cycles, restarts, scen,
                 baseClient, sched, cmd, ex>>
  /\ \E d \in DbOutcomes :
       /\ ChargeDb(d)
       /\ logTransaction(LogRow(cmd[w].tweet, "grant", TxHash(ex[w].hash),
                                NetAmount(ex[w].amount, ex[w].fee), ex[w].fee,
                                {cmd[w].recv}), d)
       /\ pc' = [pc EXCEPT ![w] = "g_mark"]

\* markAsGranted(campaign.tweet_id, targetProfile.id)
GrantMark(w) ==
  /\ pc[w] = "g_mark"
  /\ UNCHANGED <<chainVars, txs, rpcIndex, clientRpc, walletRpc, calls, rows, camp,
                 jobs, lastProcessedTweetId, cycles, restarts, scen,
                 baseClient, sched, cmd, ex>>
  /\ \E d \in DbOutcomes :
       /\ ChargeDb(d)
       /\ markAsGranted("c1", cmd[w].recv, d)
       /\ pc' = [pc EXCEPT ![w] = "g_incr"]

\* incrementCampaignParticipants: the read of the campaign row
GrantIncrRead(w) ==
  /\ pc[w] = "g_incr"
  /\ UNCHANGED <<chainVars, txs, rpcIndex, clientRpc, walletRpc, calls, rows, grants, camp,
                 jobs, lastProcessedTweetId, cycles, restarts, scen,
                 baseClient, sched, ex>>
  /\ \E d \in DbOutcomes :
       /\ ChargeDb(d)
       /\ IF d = "ok"
          THEN /\ cmd' = [cmd EXCEPT ![w].snap = camp.current_participants]
               /\ pc' = [pc EXCEPT ![w] = "g_incr2"]
          ELSE /\ pc' = [pc EXCEPT ![w] = "g_ledger"]
               /\ UNCHANGED cmd

\* incrementCampaignParticipants: the update computed from the row read
GrantIncrWrite(w) ==
  /\ pc[w] = "g_incr2"
  /\ UNCHANGED <<chainVars, txs, rpcIndex, clientRpc, walletRpc, calls, rows, grants,
                 jobs, lastProcessedTweetId, cycles, restarts, scen,
                 baseClient, sched, ex, cmd>>
  /\ \E d \in DbOutcomes :
       /\ ChargeDb(d)
       /\ LET newParticipants == cmd[w].snap + 1
              shouldComplete == /\ camp.max_participants # 0
                                /\ newParticipants >= camp.max_participants
          IN camp' = IF d # "ok" THEN camp
                     ELSE [camp EXCEPT
                             !.current_participants = newParticipants,
                             !.status = IF shouldComplete THEN "completed" ELSE @]
       /\ pc' = [pc EXCEPT ![w] = "g_ledger"]

\* syncToMainLedger: a POST whose failure is only printed
GrantSyncLedger(w) ==
  /\ pc[w] = "g_ledger"
  /\ UNCHANGED <<chainVars, txs, rpcIndex, clientRpc, walletRpc, calls, rows, grants, camp,
                 jobs, lastProcessedTweetId, cycles, restarts, scen,
                 baseClient, sched, faults>>
  /\ Advance(w)

\* the executor threw: logTransaction of the classified error code
GrantFailure(w) ==
  /\ pc[w] = "x_thrown"
  /\ ex[w].caller = "reply"
  /\ UNCHANGED <<chainVars, txs, rpcIndex, clientRpc, walletRpc, calls, grants, camp,
                 jobs, lastProcessedTweetId, cycles, restarts, scen,
                 baseClient, sched>>
  /\ \E d \in DbOutcomes :
       /\ ChargeDb(d)
       /\ logTransaction(LogRow(cmd[w].tweet, "grant",
                                GrantErrorCode(ex[w].err), 0, 0,
                                {cmd[w].recv}), d)
       /\ Advance(w)

\* ------------------------------------------------------- end of mainLoop

MaxAttempts == 3

\* one due job through claimJob, executeJob and failJob: the only job type
\* created here, cross_chain_p2p, has no case in executeJob, which throws
RunJob(j) ==
  IF j.status = "pending" /\ j.attempts < MaxAttempts
  THEN [j EXCEPT !.attempts = @ + 1,
                 !.status = IF j.attempts + 1 >= MaxAttempts
                            THEN "failed" ELSE "pending"]
  ELSE j

\* processScheduledJobs(), then checkAndCompleteCampaigns() when its interval
\* has passed
MainLoopTail(w) ==
  /\ pc[w] = "m_tail"
  /\ pc' = [pc EXCEPT ![w] = "idle"]
  /\ jobs' = [i \in 1..Len(jobs) |-> RunJob(jobs[i])]
  /\ \E due \in BOOLEAN :
       camp' = IF /\ due
                  /\ camp.status = "active"
                  /\ camp.max_participants # 0
                  /\ camp.current_participants >= camp.max_participants
               THEN [camp EXCEPT !.status = "completed"]
               ELSE camp
  /\ UNCHANGED <<chainVars, txs, rpcIndex, clientRpc, walletRpc, ex, faults, calls, rows,
                 grants, lastProcessedTweetId, cmd, cycles, restarts, scen,
                 baseClient, sched>>

\* process.exit(0) of the auto-restart timer followed by the platform's
\* restart: module state is lost, the chain and the database are kept
Restart ==
  /\ restarts < MaxRestarts
  /\ \E w \in Workers : pc[w] # "idle"
  /\ restarts' = restarts + 1
  /\ pc' = [w \in Workers |-> "idle"]
  /\ ex' = [w \in Workers |-> ExIdle]
  /\ cmd' = [w \in Workers |-> CmdIdle]
  /\ rpcIndex' = 0
  /\ clientRpc' = 0
  /\ walletRpc' = 0
  /\ lastProcessedTweetId' = "none"
  /\ cycles' = 0
  /\ baseClient' = 0
  /\ sched' = [w \in Workers |-> SchedIdle]
  /\ UNCHANGED <<chainVars, txs, faults, calls, rows, grants, camp, jobs, scen>>

\* ------------------------------------------------------------- scenarios

NoCampaign ==
  [status |-> "none", current_participants |-> 0, max_participants |-> 0,
   grant_amount |-> 0]

Campaign(max) ==
  [status |-> "active", current_participants |-> 0, max_participants |-> max,
   grant_amount |-> 10]

NoReplyTags == [r \in {"r1", "r2"} |-> "none"]

\* a single-recipient command tweet "send $amount to @target" by author
Command(author, amount, target) ==
  [NoTweet EXCEPT !.parsed = TRUE, !.author = author, !.amount = amount,
                  !.target = target]

CommandScenario(tweet, funds) ==
  [enableCampaigns |-> FALSE, enableP2P |-> TRUE, tweet |-> tweet,
   replies |-> <<>>, replyTag |-> NoReplyTags, camp |-> NoCampaign,
   bal |-> funds[1], allow |-> funds[2], router |-> 0, feeRate |-> 0]

CampaignScenario(tag1, tag2, max, router) ==
  [enableCampaigns |-> TRUE, enableP2P |-> FALSE, tweet |-> NoTweet,
   replies |-> Replies, replyTag |-> [r \in {"r1", "r2"} |->
                                        IF r = "r1" THEN tag1 ELSE tag2],
   camp |-> Campaign(max), bal |-> 0, allow |-> 0, router |-> router,
   feeRate |-> 0]

Scenarios ==
  { CommandScenario(Command("alice", 10, "bob"), <<1, 1>>),
    CommandScenario(Command("alice", 10, "bob"), <<1, 0>>),
    CommandScenario(Command("alice", 10, "bob"), <<0, 1>>),
    CommandScenario(Command("alice", 10, "bob"), <<0, 0>>),
    CommandScenario(Command("alice", 10, "ghost"), <<1, 1>>),
    CommandScenario(Command("mallory", 10, "bob"), <<1, 1>>),
    CommandScenario([NoTweet EXCEPT !.author = "alice"], <<1, 1>>),
    CommandScenario([NoTweet EXCEPT !.author = "alice", !.quote = TRUE], <<1, 1>>),
    CommandScenario([NoTweet EXCEPT !.author = "alice", !.tempo = TRUE], <<1, 1>>),
    CampaignScenario("bob", "bob", 0, 2),
    CampaignScenario("bob", "bob", 1, 2),
    CampaignScenario("none", "ghost", 0, 2),
    CampaignScenario("bob", "alice", 0, 1),
    [CommandScenario(Command("alice", 16, "bob"), <<2, 2>>)
       EXCEPT !.feeRate = 50],
    [CampaignScenario("bob", "none", 0, 2)
       EXCEPT !.feeRate = 50, !.camp.grant_amount = 16] }

NoScenario == CommandScenario(NoTweet, <<0, 0>>)

\* a multi-recipient command tweet "send $amount each to @a, @b" by author
Batch(author, amount, recipients) ==
  [NoTweet EXCEPT !.multi = TRUE, !.author = author, !.amount = amount,
                  !.recipients = recipients]

BatchScenarios ==
  { CommandScenario(Batch("alice", 10, <<"bob", "ghost">>), <<2, 2>>),
    CommandScenario(Batch("alice", 10, <<"ghost", "bob">>), <<1, 2>>),
    CommandScenario(Batch("alice", 10, <<"ghost", "bob", "carol", "dave">>),
                    <<4, 1>>),
    CommandScenario(Batch("alice", 10, <<"bob", "carol", "dave">>), <<4, 1>>),
    CommandScenario(Batch("alice", 10, <<"bob", "carol", "dave">>), <<3, 1>>),
    CommandScenario(Batch("alice", 10, <<"bob", "carol", "dave", "erin">>),
                    <<3, 4>>),
    CommandScenario(Batch("alice", 10, <<"alice", "bob">>), <<1, 1>>),
    CommandScenario(Batch("alice", 10, <<"bob", "alice">>), <<0, 1>>),
    CommandScenario(Batch("alice", 10, <<"alice", "bob">>), <<1, 0>>),
    CommandScenario(Batch("alice", 10, <<"bob", "carol">>), <<1, 0>>),
    CommandScenario(Batch("alice", 10, <<"bob", "carol">>), <<1, 2>>),
    CommandScenario(Batch("alice", 10, <<"bob", "carol">>), <<2, 1>>),
    CommandScenario(Batch("alice", 10, <<"bob", "carol">>), <<2, 2>>),
    CommandScenario(Batch("alice", 10, <<"bob", "carol">>), <<0, 2>>),
    CommandScenario(Batch("mallory", 10, <<"bob", "carol">>), <<2, 2>>) }

OverlapScenarios ==
  { CommandScenario(Command("alice", 10, "bob"), <<1, 1>>),
    CommandScenario(Command("alice", 10, "bob"), <<1, 0>>),
    CampaignScenario("bob", "bob", 0, 2),
    CampaignScenario("bob", "alice", 1, 2) }

\* module state of a fresh process
InitProcess ==
  /\ pc = [w \in Workers |-> "idle"]
  /\ ex = [w \in Workers |-> ExIdle]
  /\ cmd = [w \in Workers |-> CmdIdle]
  /\ lastProcessedTweetId = "none"
  /\ cycles = 0
  /\ restarts = 0
  /\ calls = 0
  /\ sched = [w \in Workers |-> SchedIdle]

\* the database before the first poll
InitDb(c) ==
  /\ rows = <<>>
  /\ grants = {}
  /\ jobs = <<>>
  /\ camp = c

\* the executor called directly, on any chain state and any endpoint the
\* rotation may have left selected
InitExec ==
  /\ tweetUsed \in SUBSET {"t1"}
  /\ grantIssued \in SUBSET {<<"c1", "a1">>}
  /\ \E b \in 0..MaxBal : balance = [a \in Addrs |-> IF a = "a1" THEN b ELSE 1]
  /\ \E b \in 0..MaxBal : allowance = [a \in Addrs |-> IF a = "a1" THEN b ELSE 1]
  /\ routerBalance \in 0..MaxBal
  /\ routerNonce = [a \in Addrs |-> 0]
  /\ feeRate \in FeeRates
  /\ txs = <<>>
  /\ rpcIndex \in {0, RpcCount - 1}
  /\ clientRpc = rpcIndex
  /\ walletRpc = rpcIndex
  /\ baseClient = 0
  /\ scen = NoScenario
  /\ faults = 0
  /\ InitDb(NoCampaign)
  /\ InitProcess

NextExec ==
  \E w \in DirectCallers :
    \/ CallP2P(w) \/ CallGrant(w) \/ CallDone(w)
    \/ P2PPreflight(w) \/ P2PFee(w) \/ P2PEstimate(w) \/ P2PWrite(w) \/ P2PWait(w)
    \/ GrantPreflight(w) \/ GrantFee(w) \/ GrantEstimate(w) \/ GrantWrite(w)
    \/ GrantWait(w)

SpecExec == InitExec /\ [][NextExec]_vars

\* the worker process polling Twitter, from a fresh chain and database, in
\* one of the situations scs and with f failures already spent
InitPoll(scs, f) ==
  /\ scen \in scs
  /\ faults = f
  /\ tweetUsed = {}
  /\ grantIssued = {}
  /\ balance = [a \in Addrs |-> IF a = "a1" THEN scen.bal ELSE 0]
  /\ allowance = [a \in Addrs |-> IF a = "a1" THEN scen.allow ELSE 0]
  /\ routerBalance = scen.router
  /\ routerNonce = [a \in Addrs |-> 0]
  /\ feeRate = scen.feeRate
  /\ txs = <<>>
  /\ rpcIndex = 0
  /\ clientRpc = 0
  /\ walletRpc = 0
  /\ baseClient = 0
  /\ InitDb(scen.camp)
  /\ InitProcess

\* one step of poll cycle w
CycleStep(w) ==
  \/ StartCycle(w) \/ PollCampaigns(w) \/ CampaignSearch(w)
  \/ PollCommandsSearch(w) \/ PollCommandsResult(w) \/ MainLoopTail(w)
  \/ P2PCheckDb(w) \/ P2PCheckChain(w) \/ P2PSender(w) \/ P2PCalcFee(w)
  \/ P2PAllowance(w) \/ P2PBalance(w) \/ P2PDefer(w)
  \/ BaseFirstRead(w) \/ BaseRetryRead(w) \/ P2PBaseCheck(w)
  \/ P2PReceiver(w) \/ P2PSuccess(w) \/ P2PSyncLedger(w) \/ P2PFailure(w)
  \/ LogOutcome(w)
  \/ ReplyCheckDb(w) \/ GrantProfile(w) \/ GrantCampaign(w)
  \/ GrantCheckDb(w) \/ GrantCheckChain(w) \/ GrantSyncMark(w)
  \/ GrantCalcFee(w) \/ GrantSuccess(w) \/ GrantMark(w)
  \/ GrantIncrRead(w) \/ GrantIncrWrite(w) \/ GrantSyncLedger(w)
  \/ GrantFailure(w)
  \/ P2PPreflight(w) \/ P2PFee(w) \/ P2PEstimate(w) \/ P2PWrite(w)
  \/ P2PWait(w)
  \/ GrantPreflight(w) \/ GrantFee(w) \/ GrantEstimate(w) \/ GrantWrite(w)
  \/ GrantWait(w)

Init == InitPoll(Scenarios, 0)

\* poll cycles that each finish before the next one starts, with failing
\* calls and restarts
Next ==
  \/ Restart
  \/ CycleStep("w1")

Spec == Init /\ [][Next]_vars

\* two poll cycles that overlap, every call succeeding
InitOverlap == InitPoll(OverlapScenarios, MaxFaults)

NextOverlap == \E w \in Workers : CycleStep(w)

SpecOverlap == InitOverlap /\ [][NextOverlap]_vars

\* one process polling multi-recipient commands
InitBatch == InitPoll(BatchScenarios, 0)

NextBatch ==
  \E w \in {"w1"} :
    \/ StartCycle(w) \/ PollCampaigns(w)
    \/ PollCommandsSearch(w) \/ PollCommandsResult(w) \/ MainLoopTail(w)
    \/ P2PCheckDb(w) \/ P2PCheckChain(w) \/ LogOutcome(w)
    \/ BatchSender(w) \/ BatchFunds(w) \/ BatchResolve(w) \/ BatchSuccess(w)
    \/ BatchSyncLedger(w) \/ BatchFailure(w) \/ BatchReturn(w)
    \/ P2PPreflight(w) \/ P2PFee(w) \/ P2PEstimate(w) \/ P2PWrite(w)
    \/ P2PWait(w)

SpecBatch == InitBatch /\ [][NextBatch]_vars

\* one process polling multi-recipient commands, with a restart
SpecRerun ==
  /\ InitPoll({ CommandScenario(Batch("alice", 10, <<"bob", "carol">>), <<2, 2>>),
                CommandScenario(Batch("alice", 10, <<"bob", "carol">>), <<4, 4>>),
                CommandScenario(Batch("alice", 10, <<"bob", "carol", "dave">>),
                                <<4, 1>>) }, 0)
  /\ [][Restart \/ NextBatch]_vars

\* checkBaseFunds called directly, several times in the life of one process
CallBaseCheck(w) ==
  /\ pc[w] = "idle"
  /\ calls < MaxProbes
  /\ calls' = calls + 1
  /\ pc' = [pc EXCEPT ![w] = "p_base"]
  /\ \E walletAddress \in {"a1", "a2"}, amount \in Amounts :
       cmd' = [cmd EXCEPT ![w] = EnterBaseCheck(@, walletAddress, amount)]
  /\ UNCHANGED <<chainVars, txs, rpcIndex, clientRpc, walletRpc, faults, ex, rows, grants,
                 camp, jobs, lastProcessedTweetId, cycles, restarts, scen,
                 baseClient, sched>>

BaseCheckDone(w) ==
  /\ pc[w] = "p_based"
  /\ cmd[w].kind = "none"
  /\ pc' = [pc EXCEPT ![w] = "idle"]
  /\ UNCHANGED <<chainVars, txs, rpcIndex, clientRpc, walletRpc, faults, ex, calls, appVars>>

InitProbe == InitPoll({NoScenario}, 0)

NextProbe ==
  \E w \in DirectCallers :
    \/ CallBaseCheck(w) \/ BaseCheckDone(w)
    \/ BaseFirstRead(w) \/ BaseRetryRead(w)

SpecProbe == InitProbe /\ [][NextProbe]_vars

\* ============================================ scheduler.js: the job loop

\* the scheduled_jobs tables the loop is run on, all shorter than the limit
\* of ten rows of getDueJobs. The rows are due (scheduled_at has passed);
\* max_attempts 0 is a null column, runs counts the executeJob calls made
\* for the row
JobTables ==
  LET Job(type, status, max) ==
        [type |-> type, tweet |-> "t1", status |-> status, attempts |-> 0,
         max_attempts |-> max, runs |-> 0]
  IN { <<Job(t, "pending", m)>> :
         t \in {"random_pick", "campaign_post", "cross_chain_p2p"},
         m \in {0, 1, 3, 5} }
     \cup { <<Job(t, "pending", 0), Job("cross_chain_p2p", s, 0)>> :
              t \in {"random_pick", "cross_chain_p2p"},
              s \in {"pending", "processing", "completed", "failed"} }

\* .eq('status', 'pending').lt('attempts', 3).order('scheduled_at')
getDueJobs(table) ==
  SelectSeq([i \in 1..Len(table) |-> i],
            LAMBDA i : table[i].status = "pending"
                       /\ table[i].attempts < 3)

\* variant: the update of claimJob is not restricted to pending rows
ClaimMatches_Any(j) == TRUE

\* .eq('id', jobId).eq('status', 'pending'): the row the update of claimJob
\* applies to
ClaimMatches(j) == j.status = "pending"

\* failJob: attempts = data?.attempts || 1, maxAttempts =
\* data?.max_attempts || 3, newStatus = attempts >= maxAttempts ? 'failed' :
\* 'pending'; found is whether the select returned the row
FailStatus(found, j) ==
  LET attempts == IF found /\ j.attempts # 0 THEN j.attempts ELSE 1
      maxAttempts == IF found /\ j.max_attempts # 0
                     THEN j.max_attempts ELSE MaxAttempts
  IN IF attempts >= maxAttempts THEN "failed" ELSE "pending"

\* the for loop moves on to the next due job, or processScheduledJobs returns
NextDueJob(w) ==
  /\ sched' = [sched EXCEPT ![w].dueJobs = Tail(@), ![w].claimed = -1,
                            ![w].newStatus = "none"]
  /\ pc' = [pc EXCEPT ![w] = IF Tail(sched[w].dueJobs) = <<>>
                             THEN "idle" ELSE "j_claim"]

\* mainLoop reaches await processScheduledJobs()
StartJobs(w) ==
  /\ pc[w] = "idle"
  /\ pc' = [pc EXCEPT ![w] = "j_due"]
  /\ sched' = [sched EXCEPT ![w] = SchedIdle]
  /\ UNCHANGED <<chainVars, txs, rpcIndex, clientRpc, walletRpc, ex, calls,
                 rows, grants, camp, lastProcessedTweetId, cycles, scen,
                 baseClient, jobs, faults, restarts, cmd>>

\* const dueJobs = await getDueJobs(); a query error gives the empty list
GetDueJobs(w) ==
  /\ pc[w] = "j_due"
  /\ \E d \in DbOutcomes :
       /\ ChargeDb(d)
       /\ LET due == IF d = "ok" THEN getDueJobs(jobs) ELSE <<>>
          IN /\ sched' = [sched EXCEPT ![w].dueJobs = due]
             /\ pc' = [pc EXCEPT ![w] = IF due = <<>> THEN "idle" ELSE "j_claim"]
  /\ UNCHANGED <<chainVars, txs, rpcIndex, clientRpc, walletRpc, ex, calls,
                 rows, grants, camp, lastProcessedTweetId, cycles, scen,
                 baseClient, jobs, restarts, cmd>>

\* claimJob(job.id), the conditional update: the row is returned when it was
\* pending and is now processing, null otherwise
ClaimJob(w) ==
  /\ pc[w] = "j_claim"
  /\ LET id == Head(sched[w].dueJobs)
     IN \E d \in DbOutcomes :
          /\ ChargeDb(d)
          /\ IF d = "ok" /\ ClaimMatches(jobs[id])
             THEN /\ jobs' = [jobs EXCEPT ![id].status = "processing"]
                  /\ sched' = [sched EXCEPT ![w].claimed = jobs[id].attempts]
                  /\ pc' = [pc EXCEPT ![w] = "j_incr"]
             ELSE /\ sched' = [sched EXCEPT ![w].dueJobs = Tail(@),
                                            ![w].nulls = @ \cup {id}]
                  /\ pc' = [pc EXCEPT ![w] = IF Tail(sched[w].dueJobs) = <<>>
                                             THEN "idle" ELSE "j_claim"]
                  /\ UNCHANGED jobs
  /\ UNCHANGED <<chainVars, txs, rpcIndex, clientRpc, walletRpc, ex, calls,
                 rows, grants, camp, lastProcessedTweetId, cycles, scen,
                 baseClient, restarts, cmd>>

\* claimJob, the second update: attempts = (data.attempts || 0) + 1, its
\* error ignored
ClaimIncrement(w) ==
  /\ pc[w] = "j_incr"
  /\ LET id == Head(sched[w].dueJobs)
     IN \E d \in DbOutcomes :
          /\ ChargeDb(d)
          /\ jobs' = IF d = "ok"
                     THEN [jobs EXCEPT ![id].attempts = sched[w].claimed + 1]
                     ELSE jobs
  /\ pc' = [pc EXCEPT ![w] = "j_exec"]
  /\ UNCHANGED <<chainVars, txs, rpcIndex, clientRpc, walletRpc, ex, calls,
                 rows, grants, camp, lastProcessedTweetId, cycles, scen,
                 baseClient, restarts, cmd, sched>>

\* executeJob(claimed): a result for random_pick and campaign_post, a throw
\* of "Unknown job type" for every other type
ExecuteJob(w) ==
  /\ pc[w] = "j_exec"
  /\ LET id == Head(sched[w].dueJobs)
     IN /\ jobs' = [jobs EXCEPT ![id].runs = @ + 1]
        /\ pc' = [pc EXCEPT ![w] =
                    IF jobs[id].type \in {"random_pick", "campaign_post"}
                    THEN "j_complete" ELSE "j_fail"]
  /\ UNCHANGED <<chainVars, txs, rpcIndex, clientRpc, walletRpc, ex, calls,
                 rows, grants, camp, lastProcessedTweetId, cycles, scen,
                 baseClient, faults, restarts, cmd, sched>>

\* completeJob(job.id, result), the error of its update ignored
CompleteJob(w) ==
  /\ pc[w] = "j_complete"
  /\ LET id == Head(sched[w].dueJobs)
     IN \E d \in DbOutcomes :
          /\ ChargeDb(d)
          /\ jobs' = IF d = "ok"
                     THEN [jobs EXCEPT ![id].status = "completed"]
                     ELSE jobs
  /\ NextDueJob(w)
  /\ UNCHANGED <<chainVars, txs, rpcIndex, clientRpc, walletRpc, ex, calls,
                 rows, grants, camp, lastProcessedTweetId, cycles, scen,
                 baseClient, restarts, cmd>>

\* failJob(job.id, message), the select of attempts and max_attempts
FailJobRead(w) ==
  /\ pc[w] = "j_fail"
  /\ LET id == Head(sched[w].dueJobs)
     IN \E d \in DbOutcomes :
          /\ ChargeDb(d)
          /\ sched' = [sched EXCEPT ![w].newStatus = FailStatus(d = "ok", jobs[id])]
  /\ pc' = [pc EXCEPT ![w] = "j_fail2"]
  /\ UNCHANGED <<chainVars, txs, rpcIndex, clientRpc, walletRpc, ex, calls,
                 rows, grants, camp, lastProcessedTweetId, cycles, scen,
                 baseClient, jobs, restarts, cmd>>

\* failJob, the update to newStatus, its error ignored
FailJobWrite(w) ==
  /\ pc[w] = "j_fail2"
  /\ LET id == Head(sched[w].dueJobs)
     IN \E d \in DbOutcomes :
          /\ ChargeDb(d)
          /\ jobs' = IF d = "ok"
                     THEN [jobs EXCEPT ![id].status = sched[w].newStatus]
                     ELSE jobs
  /\ NextDueJob(w)
  /\ UNCHANGED <<chainVars, txs, rpcIndex, clientRpc, walletRpc, ex, calls,
                 rows, grants, camp, lastProcessedTweetId, cycles, scen,
                 baseClient, restarts, cmd>>

\* the process of worker w exits (auto-restart timer, SIGINT, SIGTERM) and
\* is started again: its locals are lost, the table is kept
WorkerExit(w) ==
  /\ restarts < MaxRestarts
  /\ pc[w] # "idle"
  /\ restarts' = restarts + 1
  /\ pc' = [pc EXCEPT ![w] = "idle"]
  /\ sched' = [sched EXCEPT ![w] = SchedIdle]
  /\ UNCHANGED <<chainVars, txs, rpcIndex, clientRpc, walletRpc, ex, calls,
                 rows, grants, camp, lastProcessedTweetId, cycles, scen,
                 baseClient, jobs, faults, cmd>>

\* the steps of worker w inside processScheduledJobs
JobStep(w) ==
  \/ StartJobs(w) \/ GetDueJobs(w) \/ ClaimJob(w) \/ ClaimIncrement(w)
  \/ ExecuteJob(w) \/ CompleteJob(w) \/ FailJobRead(w) \/ FailJobWrite(w)

\* two workers on one scheduled_jobs table
InitJobs ==
  /\ scen = NoScenario
  /\ faults = 0
  /\ tweetUsed = {}
  /\ grantIssued = {}
  /\ balance = [a \in Addrs |-> 0]
  /\ allowance = [a \in Addrs |-> 0]
  /\ routerBalance = 0
  /\ routerNonce = [a \in Addrs |-> 0]
  /\ feeRate = 0
  /\ txs = <<>>
  /\ rpcIndex = 0
  /\ clientRpc = 0
  /\ walletRpc = 0
  /\ baseClient = 0
  /\ rows = <<>>
  /\ grants = {}
  /\ camp = NoCampaign
  /\ jobs \in JobTables
  /\ InitProcess

SpecJobs == InitJobs /\ [][\E w \in Workers : JobStep(w) \/ WorkerExit(w)]_vars

\* every worker that can take a step of the loop eventually takes one: the
\* poll timer fires again and an awaited query returns
SpecJobsLive == SpecJobs /\ \A w \in Workers : WF_vars(JobStep(w))

\* ================================================ properties: dedup gate

\* number of transactions handed to writeContract for function fn with key
\* and recipient matching
Submissions(fn, key, tos) ==
  Cardinality({i \in 1..Len(txs) :
                 txs[i].fn = fn /\ txs[i].key = key /\ txs[i].to \in tos})

\* the invocation of worker w for its current tweet ends in this step, the
\* process staying up
EndsInvocation(w) ==
  /\ cmd[w].tweet # "none"
  /\ cmd'[w].tweet # cmd[w].tweet
  /\ restarts' = restarts

HasRow(log, tweet) == \E i \in 1..Len(log) : log[i].tweet_id = tweet

\* C1: once a P2P command has succeeded on-chain for a tweet id, every later
\* invocation of processP2PCommand with that tweet id stops at the
\* deduplication gate (durable log, then on-chain marker) and never reaches the
\* executor, so at most one executeP2P transaction is ever submitted for the
\* tweet id.
C1_NoResubmission ==
  /\ \A w \in Workers :
       (cmd[w].kind = "cmd" /\ cmd[w].wasUsed) =>
         /\ pc[w] \in {"p_db", "p_chain", "log"}
         /\ ex[w] = ExIdle
         /\ pc[w] = "log" =>
              cmd[w].tx_hash \in {<<"SKIP", "ALREADY_ONCHAIN">>,
                                  <<"SKIP", "QUOTE_NOT_COMMAND">>}
  /\ Submissions("executeP2P", "t1", Addrs) <= 1

\* an invocation begun after the success is being turned away by the on-chain
\* gate, the one transaction of the tweet already mined
C1_Witness ==
  \E w \in Workers :
    /\ cmd[w].kind = "cmd"
    /\ cmd[w].wasUsed
    /\ pc[w] = "log"
    /\ cmd[w].tx_hash = <<"SKIP", "ALREADY_ONCHAIN">>
    /\ Submissions("executeP2P", "t1", Addrs) = 1

SyncCodes ==
  {<<"SKIP", "ALREADY_ONCHAIN">>, <<"SKIP", "DUPLICATE_GRANT_ONCHAIN">>}

\* the step of worker w is the insert of the skip row written for a marker
\* found on-chain
SyncInsert(w) ==
  /\ pc[w] = "log"
  /\ cmd[w].tx_hash \in SyncCodes
  /\ pc'[w] # "log"
  /\ restarts' = restarts

C3_AtMostOneSubmission ==
  /\ Submissions("executeP2P", "t1", Addrs) <= 1
  /\ \A a \in Addrs : Submissions("executeGrant", "c1", {a}) <= 1

DuplicateCodes ==
  {<<"SKIP", "DUPLICATE_GRANT_DB">>, <<"SKIP", "DUPLICATE_GRANT_ONCHAIN">>}

EarlyCodes == {<<"SKIP", "CAMPAIGN_INACTIVE">>, <<"LIMIT_REACHED">>}

\* at most one executeGrant per pair, and a reply processed for a pair whose
\* grant is already issued stays before the executor and logs one of codes
GrantOnce(codes) ==
  /\ \A a \in Addrs : Submissions("executeGrant", "c1", {a}) <= 1
  /\ \A w \in Workers :
       (cmd[w].kind = "reply" /\ cmd[w].wasUsed) =>
         /\ pc[w] \in {"g_camp", "g_db", "g_chain", "g_syncmark", "log"}
         /\ ex[w] = ExIdle
         /\ pc[w] = "log" => cmd[w].tx_hash \in codes

C5_EveryOutcomeLogged ==
  [][\A w \in Workers :
       (EndsInvocation(w) /\ ex[w] = ExIdle /\ pc[w] # "log") =>
         HasRow(rows', cmd[w].tweet)]_vars

\* C6: when a multi-recipient batch returns, every requested recipient has a
\* logTransaction row of the tweet naming it, whether or not other recipients
\* succeeded (no call having failed).
C6_EveryRecipientLogged ==
  [][\A w \in Workers :
       (pc[w] = "b_return" /\ pc'[w] # "b_return" /\ faults' = 0) =>
         \A k \in 1..Len(cmd[w].results) :
           \E i \in 1..Len(rows') :
             /\ rows'[i].tweet_id = cmd[w].tweet
             /\ cmd[w].results[k].tag \in rows'[i].recipient_pay_tag]_vars

\* ===================================================== properties: executor

\* an executor call of kind k takes its pre-flight decision in this step
PreflightDecides(w, k) ==
  /\ pc[w] \in {"x_pre", "x_pre2"}
  /\ ex[w].kind = k
  /\ pc'[w] \in {"x_fee", "x_thrown"}
  /\ ex'[w].err \notin RpcErrors

\* C7: in executeP2PViaRouter the pre-flight decision is first-match-wins in
\* the order duplicate marker, balance, allowance: a used tweet id fails with
\* the duplicate error whatever balance and allowance are; otherwise a balance
\* below the amount fails with the balance error whatever the allowance is;
\* otherwise an allowance below the amount fails with the allowance error;
\* otherwise the call goes on to execution.
C7_PreflightOrder ==
  [][\A w \in Workers :
       PreflightDecides(w, "p2p") =>
         LET e == ex[w]
         IN IF e.key \in tweetUsed
            THEN /\ pc'[w] = "x_thrown"
                 /\ Includes(ex'[w].err, "ERROR_DUPLICATE_TWEET")
            ELSE IF balance[e.from] < e.units
            THEN /\ pc'[w] = "x_thrown"
                 /\ Includes(ex'[w].err, "ERROR_BALANCE")
            ELSE IF allowance[e.from] < e.units
            THEN /\ pc'[w] = "x_thrown"
                 /\ Includes(ex'[w].err, "ERROR_ALLOWANCE")
            ELSE /\ pc'[w] = "x_fee"
                 /\ ex'[w].err = NoErr]_vars

\* a P2P call failed as a duplicate while balance and allowance were short too
C7_Witness ==
  \E w \in Workers :
    /\ pc[w] = "x_thrown"
    /\ ex[w].kind = "p2p"
    /\ Includes(ex[w].err, "ERROR_DUPLICATE_TWEET")
    /\ ex[w].bal < ex[w].units
    /\ ex[w].allow < ex[w].units

\* C8: in executeGrantViaRouter an already issued grant fails with the
\* duplicate-grant error even when the router's token balance is insufficient
\* too, before any fee read, gas estimation or submission; a grant not yet
\* issued with a contract balance below the amount fails with the
\* contract-balance error.
C8_GrantPreflightOrder ==
  [][\A w \in Workers :
       PreflightDecides(w, "grant") =>
         LET e == ex[w]
         IN IF <<e.key, e.to>> \in grantIssued
            THEN /\ pc'[w] = "x_thrown"
                 /\ Includes(ex'[w].err, "ERROR_DUPLICATE_GRANT")
                 /\ ex'[w].fr = 0 /\ ex'[w].est = 0 /\ ex'[w].wr = 0
                 /\ txs' = txs
            ELSE IF routerBalance < e.units
            THEN /\ pc'[w] = "x_thrown"
                 /\ Includes(ex'[w].err, "ERROR_CONTRACT_BALANCE")
            ELSE pc'[w] = "x_fee"]_vars

\* a grant call failed as a duplicate while the router could not pay either
C8_Witness ==
  \E w \in Workers :
    /\ pc[w] = "x_thrown"
    /\ ex[w].kind = "grant"
    /\ Includes(ex[w].err, "ERROR_DUPLICATE_GRANT")
    /\ ex[w].bal < ex[w].units
    /\ ex[w].fr = 0 /\ ex[w].est = 0 /\ ex[w].wr = 0

\* C9: whenever the pre-flight of executeP2PViaRouter or executeGrantViaRouter
\* fails (a failed check, or a read error the retry did not recover), the call
\* has thrown and has made no fee read, no gas estimation and no writeContract
\* call.
C9_PreflightFailureStops ==
  \A w \in Workers :
    ex[w].preflightFailed =>
      /\ pc[w] = "x_thrown"
      /\ ex[w].fr = 0
      /\ ex[w].est = 0
      /\ ex[w].wr = 0

\* a pre-flight that failed on its second attempt with a read error
C9_Witness ==
  \E w \in Workers :
    /\ ex[w].preflightFailed
    /\ ex[w].pre = 2
    /\ ex[w].err \in RpcErrors
    /\ pc[w] = "x_thrown"

\* C10: every submitted transaction, executeP2P or executeGrant, carries the
\* gas limit e + floor(e/5) for the estimate e its call obtained, which is
\* never less than e, also when e came from the retried estimation.
C10_GasBuffer ==
  \A i \in 1..Len(txs) :
    /\ txs[i].gas = txs[i].estimate + (txs[i].estimate \div 5)
    /\ txs[i].gas >= txs[i].estimate

\* a grant submitted with the limit 10 for the estimate 9 of a retried estimation
C10_Witness ==
  \E i \in 1..Len(txs) :
    /\ txs[i].fn = "executeGrant"
    /\ txs[i].attempt = 2
    /\ txs[i].estimate = 9
    /\ txs[i].gas = 10

\* ================================================ properties: RPC failover

\* C11: within one process the RPC endpoint index stays within 0..N-1, never
\* decreases and never wraps back to 0; at index N-1 a rotation leaves it
\* unchanged, so every rotation after the (N-1)th is a no-op.
C11_IndexMonotone ==
  [][restarts' = restarts =>
       /\ rpcIndex \in 0..(RpcCount - 1)
       /\ rpcIndex' \in 0..(RpcCount - 1)
       /\ rpcIndex' >= rpcIndex
       /\ rpcIndex' <= rpcIndex + 1
       /\ rpcIndex = RpcCount - 1 => rpcIndex' = rpcIndex]_vars

\* the single rotation request of a call was made at the last index and left
\* it where it was
C11_Witness ==
  \E w \in Workers :
    /\ pc[w] = "x_pre2"
    /\ ex[w].rot = 1
    /\ faults = 1
    /\ calls = 1
    /\ rpcIndex = RpcCount - 1

\* the classification of the claims, written out: the message contains '429'
\* or, case-insensitively, 'rate limit'
RateLimited(msg) ==
  "429" \in msg \/ "rate limit" \in msg \/ "Rate Limit" \in msg

\* C12: no chain operation of the executor (pre-flight batch, calculateFee
\* read, gas estimation, submission, receipt wait) ends the call with a
\* rate-limited error on its first attempt: such a failure is followed by a
\* rotation and a retry.
C12_EveryCallRetried ==
  [][\A w \in Workers :
       ~ /\ pc[w] \in {"x_pre", "x_fee", "x_est", "x_write", "x_wait"}
         /\ pc'[w] = "x_thrown"
         /\ RateLimited(ex'[w].err)]_vars

\* C13: within one executor call the pre-flight batch and the gas estimation
\* are each attempted at most twice, one rotation request being made per
\* retry; when the retry fails the error goes to the caller, nothing has been
\* or is submitted, and the index has not moved again.
C13_SingleRetry ==
  [][\A w \in Workers :
       /\ ex[w].pre <= 2 /\ ex[w].est <= 2
       /\ ex[w].rot = (IF ex[w].pre = 2 \/ pc[w] = "x_pre2" THEN 1 ELSE 0)
                      + (IF ex[w].est = 2 \/ pc[w] = "x_est2" THEN 1 ELSE 0)
       /\ (/\ pc[w] \in {"x_pre", "x_est"} /\ pc'[w] \in {"x_pre2", "x_est2"}) =>
            /\ pc'[w] = (IF pc[w] = "x_pre" THEN "x_pre2" ELSE "x_est2")
            /\ rpcIndex' <= rpcIndex + 1
            /\ clientRpc' = rpcIndex'
            /\ txs' = txs
       /\ (/\ pc[w] \in {"x_pre2", "x_est2"} /\ pc'[w] # pc[w]
           /\ faults' = faults + 1) =>
            /\ pc'[w] = "x_thrown"
            /\ ex'[w].err \in RpcErrors
            /\ ex'[w].err = ex'[w].caught
            /\ ex'[w].wr = 0
            /\ txs' = txs
            /\ rpcIndex' = rpcIndex]_vars

\* a gas estimation failed twice, the second failure rate-limited too, after
\* one rotation and with nothing submitted
C13_Witness ==
  \E w \in Workers :
    /\ pc[w] = "x_thrown"
    /\ ex[w].est = 2
    /\ ex[w].rot = 1
    /\ RateLimited(ex[w].err)
    /\ ex[w].wr = 0
    /\ txs = <<>>

\* C14: a pre-flight read or a gas estimation that fails with an error that is
\* not rate-limited throws it at once: no retry, the index unchanged, the
\* clients not rebuilt; only a rate-limited failure of a first attempt leads
\* to the retry.
C14_OtherErrorsPropagate ==
  [][\A w \in Workers :
       (/\ pc[w] \in {"x_pre", "x_est"} /\ pc'[w] # pc[w]
        /\ ex'[w].caught # NoErr) =>
         IF RateLimited(ex'[w].caught)
         THEN pc'[w] \in {"x_pre2", "x_est2"}
         ELSE /\ pc'[w] = "x_thrown"
              /\ ex'[w].err = ex'[w].caught
              /\ ex'[w].pre + ex'[w].est = ex[w].pre + ex[w].est + 1
              /\ ex'[w].rot = ex[w].rot
              /\ rpcIndex' = rpcIndex
              /\ clientRpc' = clientRpc
              /\ txs' = txs]_vars

\* a first pre-flight attempt ended the call with a timeout, nothing rotated
C14_Witness ==
  \E w \in Workers :
    /\ pc[w] = "x_thrown"
    /\ ex[w].pre = 1
    /\ ex[w].caught = {"timeout"}
    /\ ex[w].err = {"timeout"}
    /\ ex[w].rot = 0
    /\ rpcIndex = clientRpc

\* C15: a call of executeP2PViaRouter or executeGrantViaRouter hands at most
\* one transaction to writeContract, of the function of its kind; when it
\* returns {hash, fee} it has handed exactly one, and it returns only from the
\* step that obtained the receipt of that transaction.
C15_OneSubmissionPerCall ==
  [][/\ \A w \in Workers :
          /\ ex[w].wr <= 1
          /\ pc[w] = "x_ret" =>
               /\ ex[w].wr = 1
               /\ ex[w].hash \in 1..Len(txs)
               /\ txs[ex[w].hash].by = w
               /\ txs[ex[w].hash].fn =
                    (IF ex[w].kind = "p2p" THEN "executeP2P" ELSE "executeGrant")
          /\ (pc[w] # "x_ret" /\ pc'[w] = "x_ret") =>
               /\ pc[w] = "x_wait"
               /\ faults' = faults
               /\ txs' = [txs EXCEPT ![ex[w].hash].receipt = TRUE]
     /\ Len(txs') <= Len(txs) + 1
     /\ Len(txs') = Len(txs) + 1 =>
          \E w \in Workers :
            /\ pc[w] = "x_write" /\ ex[w].wr = 0 /\ ex'[w].wr = 1
            /\ ex'[w].hash = Len(txs')]_vars

\* a grant call has returned the hash of the one transaction it submitted
C15_Witness ==
  \E w \in Workers :
    /\ pc[w] = "x_ret"
    /\ ex[w].kind = "grant"
    /\ ex[w].wr = 1
    /\ Len(txs) = 1
    /\ txs[ex[w].hash].mined

\* ============================================ properties: batch transfers

\* invocation w is inside executeMultiRecipientP2P
InBatch(w) ==
  /\ cmd[w].kind = "cmd"
  /\ scen.tweet.multi
  /\ cmd[w].sender # "none"
  /\ pc[w] \notin {"log", "p_db", "p_chain", "b_sender"}

\* the batch of invocation w returns its results in this step
ReturnsBatch(w) == InBatch(w) /\ pc[w] = "b_return" /\ pc'[w] # "b_return"

\* results holds a failed entry for tag with one of reasons
HasFailed(results, tag, reasons) ==
  \E i \in 1..Len(results) :
    /\ results[i].tag = tag
    /\ results[i].status = "failed"
    /\ results[i].reason \in reasons

TagsFailed(results, reasons) ==
  {results[i].tag : i \in {j \in 1..Len(results) :
                             /\ results[j].status = "failed"
                             /\ results[j].reason \in reasons}}

\* seq is an initial part of whole
IsPrefix(seq, whole) ==
  Len(seq) <= Len(whole) /\ seq = SubSeq(whole, 1, Len(seq))

\* C16: in a batch whose recipient list contains the sender's own tag, the
\* executor is never called for that tag, no transaction goes to the sender's
\* own wallet, and the results hold the tag as failed with the self-send
\* reason, whatever the balance, the allowance and the other recipients.
C16_SelfSendExcluded ==
  \A w \in Workers :
    (InBatch(w) /\ cmd[w].sender \in Range(scen.tweet.recipients)) =>
      /\ cmd[w].sender \notin Range(cmd[w].attempted)
      /\ ex[w].caller = "batch" => ex[w].to # WalletOf(cmd[w].sender)
      /\ \A i \in 1..Len(txs) : txs[i].to # WalletOf(cmd[w].sender)
      /\ HasFailed(cmd[w].results, cmd[w].sender, {"Cannot send to yourself"})

\* a batch naming the sender and one other tag is about to return with the
\* other tag paid and the sender's tag failed as self-send
C16_Witness ==
  \E w \in Workers :
    /\ InBatch(w)
    /\ pc[w] = "b_return"
    /\ HasFailed(cmd[w].results, cmd[w].sender, {"Cannot send to yourself"})
    /\ SuccessCount(cmd[w].results) = 1
    /\ Len(txs) = 1

\* the recipients left by the self-send filter
NonSelf(w) == Without(scen.tweet.recipients, {cmd[w].sender})

\* C17: with floor(B/a) = m < k for the k recipients of the batch, when the
\* batch returns exactly r1..rm were attempted, in order, and rm+1..rk are
\* failed with a balance-limit reason (no call having failed, the allowance
\* covering the whole batch and every tag having a profile).
C17_ExactlyAffordableAttempted ==
  [][\A w \in Workers :
       (/\ ReturnsBatch(w) /\ faults' = 0
        /\ Range(NonSelf(w)) \subseteq PayTags
        /\ scen.allow >= Len(NonSelf(w))) =>
         LET rs == NonSelf(w)
             k == Len(rs)
             m == FormatUnits(scen.bal) \div scen.tweet.amount
         IN m < k =>
              /\ cmd[w].attempted = SubSeq(rs, 1, m)
              /\ \A i \in (m + 1)..k :
                   HasFailed(cmd[w].results, rs[i],
                             {"Insufficient balance (batch limit)",
                              "Insufficient balance"})]_vars

\* C18: when the batch-wide check fails - the balance affords no transfer, or
\* the allowance is below the per-recipient amount - every tag not yet failed
\* is failed with the insufficient-balance or the insufficient-allowance
\* reason and the batch returns from that very step: no profile lookup, no
\* executor call, no transaction.
C18_AggregateFailureStops ==
  [][\A w \in Workers :
       (/\ InBatch(w) /\ pc[w] = "b_funds" /\ pc'[w] # "b_funds"
        /\ faults' = faults) =>
         LET tags == cmd[w].tags
             k == Len(tags)
             a == scen.tweet.amount
             bal == FormatUnits(balance[WalletOf(cmd[w].sender)])
             allow == FormatUnits(allowance[WalletOf(cmd[w].sender)])
             m == bal \div a
             stopped == /\ pc'[w] = "b_return"
                        /\ cmd'[w].attempted = <<>>
                        /\ cmd'[w].todo = <<>>
                        /\ ex'[w] = ExIdle
                        /\ txs' = txs
         IN IF m = 0
            THEN /\ stopped
                 /\ cmd'[w].results =
                      cmd[w].results \o Failed(tags, "Insufficient balance")
            ELSE IF allow < a
            THEN /\ stopped
                 /\ \E j \in 1..k :
                      cmd'[w].results =
                        cmd[w].results
                          \o Failed(SubSeq(tags, j + 1, k),
                                    "Insufficient balance (batch limit)")
                          \o Failed(SubSeq(tags, 1, j), "Insufficient allowance")
            ELSE pc'[w] = "b_resolve"]_vars

\* a batch with balance for one of two and no allowance is about to return
\* with both failed and nothing attempted
C18_Witness ==
  \E w \in Workers :
    /\ InBatch(w)
    /\ pc[w] = "b_return"
    /\ cmd[w].attempted = <<>>
    /\ txs = <<>>
    /\ cmd[w].results =
         Failed(<<"carol">>, "Insufficient balance (batch limit)")
           \o Failed(<<"bob">>, "Insufficient allowance")

\* the tags of the batch that went on to resolution: neither the sender's own
\* nor cut by the balance limit
KeptTags(w) ==
  Without(scen.tweet.recipients,
          TagsFailed(cmd[w].results, {"Cannot send to yourself",
                                      "Insufficient balance (batch limit)"}))

\* the batch-wide check let the batch through
PassedPrecheck(w) ==
  \/ cmd[w].attempted # <<>>
  \/ TagsFailed(cmd[w].results,
                {"Insufficient balance", "Insufficient allowance"}) = {}

NotFound(w) == TagsFailed(cmd[w].results, {"Monitag not found"})

StoppedReasons ==
  {"Insufficient balance (batch stopped)", "Insufficient allowance (batch stopped)"}

\* C19 as stated: when a batch that passed the batch-wide check returns with
\* no call having failed, a tag
\* without profile is failed as not found and was not attempted, and all
\* other tags that went on to resolution were attempted, in order.
C19_OthersAllAttempted ==
  [][\A w \in Workers :
       (ReturnsBatch(w) /\ PassedPrecheck(w) /\ NotFound(w) # {} /\ faults' = 0) =>
         /\ NotFound(w) \cap Range(cmd[w].attempted) = {}
         /\ faults' = 0 => NotFound(w) = Range(KeptTags(w)) \ PayTags
         /\ cmd[w].attempted = Without(KeptTags(w), NotFound(w))]_vars

\* C19 amended: a tag without profile is failed as not found, is never
\* attempted and does not end the batch: the other tags that went on to
\* resolution are attempted in input order, up to the end of the list or to
\* the attempt whose balance or allowance failure stops the batch, the tags
\* after it being failed as batch-stopped.
C19_NotFoundDoesNotAbort ==
  [][\A w \in Workers :
       (ReturnsBatch(w) /\ PassedPrecheck(w)) =>
         LET run == Without(KeptTags(w), NotFound(w))
             done == cmd[w].attempted
         IN /\ NotFound(w) \cap Range(done) = {}
            /\ faults' = 0 => NotFound(w) = Range(KeptTags(w)) \ PayTags
            /\ IsPrefix(done, run)
            /\ \A i \in (Len(done) + 1)..Len(run) :
                 /\ HasFailed(cmd[w].results, run[i], StoppedReasons)
                 /\ Len(done) > 0
                 /\ HasFailed(cmd[w].results, done[Len(done)],
                              {"Insufficient balance", "Insufficient allowance"})
     ]_vars

\* a batch whose first tag has no profile is about to return with that tag
\* failed as not found and the two tags after it attempted in order
C19_Witness ==
  \E w \in Workers :
    /\ InBatch(w)
    /\ pc[w] = "b_return"
    /\ scen.tweet.recipients[1] = "ghost"
    /\ HasFailed(cmd[w].results, "ghost", {"Monitag not found"})
    /\ cmd[w].attempted = <<"bob", "carol">>

\* C20: when the executor throws for a recipient of the batch, a message
\* naming the balance or the allowance error fails that recipient, fails every
\* recipient still queued with the same reason suffixed '(batch stopped)' and
\* ends the loop with no further attempt; any other message fails that
\* recipient only and the loop goes on to the next queued recipient.
C20_ExhaustionStopsBatch ==
  [][\A w \in Workers :
       (/\ pc[w] = "x_thrown" /\ ex[w].caller = "batch" /\ pc'[w] # "x_thrown") =>
         LET cur == Head(cmd[w].todo)
             rest == Tail(cmd[w].todo)
             msg == ex[w].err
             reason == IF "ERROR_BALANCE" \in msg THEN "Insufficient balance"
                       ELSE IF "ERROR_ALLOWANCE" \in msg
                       THEN "Insufficient allowance"
                       ELSE IF "ERROR_DUPLICATE" \in msg THEN "Already processed"
                       ELSE "Transaction failed"
             failed == [tag |-> cur, status |-> "failed", reason |-> reason,
                        hash |-> 0]
         IN IF reason = "Insufficient balance"
            THEN /\ cmd'[w].results =
                      Append(cmd[w].results, failed)
                        \o Failed(rest, "Insufficient balance (batch stopped)")
                 /\ pc'[w] = "b_return"
                 /\ cmd'[w].attempted = cmd[w].attempted
                 /\ txs' = txs
            ELSE IF reason = "Insufficient allowance"
            THEN /\ cmd'[w].results =
                      Append(cmd[w].results, failed)
                        \o Failed(rest, "Insufficient allowance (batch stopped)")
                 /\ pc'[w] = "b_return"
                 /\ cmd'[w].attempted = cmd[w].attempted
                 /\ txs' = txs
            ELSE /\ cmd'[w].results = Append(cmd[w].results, failed)
                 /\ IF rest = <<>>
                    THEN pc'[w] = "b_return"
                    ELSE /\ pc'[w] = "x_pre"
                         /\ ex'[w].to = WalletOf(Head(rest))
                         /\ cmd'[w].attempted = Append(cmd[w].attempted, Head(rest))
     ]_vars

\* the second of three transfers failed on the allowance: the third recipient
\* is failed as batch-stopped without having been attempted
C20_Witness ==
  \E w \in Workers :
    /\ InBatch(w)
    /\ pc[w] = "b_return"
    /\ scen.tweet.recipients = <<"bob", "carol", "dave">>
    /\ cmd[w].attempted = <<"bob", "carol">>
    /\ HasFailed(cmd[w].results, "carol", {"Insufficient allowance"})
    /\ HasFailed(cmd[w].results, "dave",
                 {"Insufficient allowance (batch stopped)"})
    /\ Len(txs) = 1

\* ======================================= properties: batch summary and keys

\* C21: whenever executeMultiRecipientP2P returns (all tags were self-sends,
\* nothing affordable, allowance short, the loop ran to its end or was
\* stopped), summary.total is the number of recipient tags it was called
\* with, the filtered self-sends included.
C21_TotalIsRequestedCount ==
  \A w \in Workers :
    (InBatch(w) /\ pc[w] = "b_return") =>
      cmd[w].summary.total = Len(scen.tweet.recipients)

\* a batch naming the sender and one other tag returns early on the allowance
\* check, with both tags counted in total
C21_Witness ==
  \E w \in Workers :
    /\ InBatch(w)
    /\ pc[w] = "b_return"
    /\ HasFailed(cmd[w].results, cmd[w].sender, {"Cannot send to yourself"})
    /\ TagsFailed(cmd[w].results, {"Insufficient allowance"}) # {}
    /\ cmd[w].summary = [total |-> 2, success |-> 0, failed |-> 2]

\* the tag a dedup key of tweet t1 was built for; "none" for any other key
KeyTag(key) ==
  CASE key = "t1_alice" -> "alice"
    [] key = "t1_bob" -> "bob"
    [] key = "t1_carol" -> "carol"
    [] key = "t1_dave" -> "dave"
    [] key = "t1_erin" -> "erin"
    [] key = "t1_ghost" -> "ghost"
    [] OTHER -> "none"

\* C22: in a batch the key handed to the executor for a recipient is the
\* key built from the tweet id and that recipient's own tag (so two tags never
\* share a key), and a key found used on the chain was used by a transfer to
\* that same recipient: no transfer to another recipient carries it.
C22_KeysPerRecipient ==
  \A w \in Workers :
    (InBatch(w) /\ ex[w].caller = "batch") =>
      LET tag == Head(cmd[w].todo)
      IN /\ cmd[w].tweet = "t1"
         /\ KeyTag(ex[w].key) = tag
         /\ \A i \in 1..Len(txs) :
              txs[i].key = ex[w].key => txs[i].to = WalletOf(tag)
         /\ ex[w].key \in tweetUsed =>
              \E i \in 1..Len(txs) :
                /\ txs[i].mined
                /\ txs[i].key = ex[w].key
                /\ txs[i].to = WalletOf(tag)

\* a batch returns with two recipients paid under two different keys
C22_Witness ==
  \E w \in Workers :
    /\ InBatch(w)
    /\ pc[w] = "b_return"
    /\ SuccessCount(cmd[w].results) = 2
    /\ \E i, j \in 1..Len(txs) :
         /\ txs[i].mined /\ txs[j].mined
         /\ txs[i].key = "t1_bob" /\ txs[j].key = "t1_carol"
         /\ {"t1_bob", "t1_carol"} \subseteq tweetUsed

\* ================================== properties: batch sequencing and probes

\* the batch of invocation w moves on to the pre-flight of its next recipient
NextRecipient(w) ==
  /\ InBatch(w)
  /\ ex[w].caller = "batch"
  /\ pc[w] \in {"x_thrown", "b_sync"}
  /\ pc'[w] = "x_pre"

\* C23: a batch starts the pre-flight of its next recipient only when the
\* transaction submitted for the previous recipient, if any, has its receipt:
\* the batch has no unconfirmed transaction behind it when it goes on.
C23_PreviousConfirmed ==
  [][\A w \in Workers :
       (NextRecipient(w) /\ ex[w].hash # 0) => txs[ex[w].hash].receipt]_vars

\* C24: checkBaseFunds never throws: a failed first read leads to the retry,
\* the retry always gives a result, and when both reads failed the result
\* has hasBalance and hasAllowance false; the command that asked then logs
\* its own primary-chain error (ERROR_ALLOWANCE or ERROR_BALANCE, with the
\* amount and the fee) and schedules nothing.
C24_ProbeFailsClosed ==
  [][\A w \in Workers :
       restarts' = restarts =>
         /\ (pc[w] = "p_base" /\ pc'[w] # "p_base") =>
              pc'[w] \in {"p_base2", "p_based"}
         /\ (pc[w] = "p_base2" /\ pc'[w] # "p_base2") =>
              /\ pc'[w] = "p_based"
              /\ cmd'[w].probe.failed = 2 =>
                   /\ ~cmd'[w].probe.hasBalance
                   /\ ~cmd'[w].probe.hasAllowance
         /\ (pc[w] = "p_based" /\ cmd[w].kind = "cmd" /\ pc'[w] # "p_based"
               /\ cmd[w].probe.failed = 2) =>
              /\ pc'[w] = "log"
              /\ cmd'[w].tx_hash = IF cmd[w].reason = "allowance"
                                   THEN <<"ERROR", "ALLOWANCE">>
                                   ELSE <<"ERROR", "BALANCE">>
              /\ cmd'[w].logAmount = scen.tweet.amount
              /\ cmd'[w].logFee = cmd[w].fee
              /\ jobs' = jobs]_vars

\* a command short of allowance whose probe failed on both reads is about to
\* log ERROR_ALLOWANCE
C24_Witness ==
  \E w \in Workers :
    /\ pc[w] = "log"
    /\ cmd[w].reason = "allowance"
    /\ cmd[w].probe.failed = 2
    /\ cmd[w].probe.firstRpc = 0
    /\ cmd[w].tx_hash = <<"ERROR", "ALLOWANCE">>
    /\ jobs = <<>>

\* C25: whenever checkBaseFunds retries after a failed first read, the retry
\* goes to an endpoint other than the one the first read was sent to, on
\* every invocation of the process.
C25_RetryOnAlternate ==
  \A w \in Workers :
    cmd[w].probe.retryRpc # -1 =>
      cmd[w].probe.retryRpc # cmd[w].probe.firstRpc

\* the primary-chain pre-check of invocation w failed on allowance or balance
PrecheckFailed(w) ==
  cmd[w].kind = "cmd" /\ cmd[w].reason \in {"allowance", "balance"}

\* C26: a command is handed to the secondary chain only after its allowance
\* or balance pre-check failed and the probe reported both hasBalance and
\* hasAllowance; a command whose pre-check failed never reaches the executor,
\* and when its processing ends (the insert of its row itself not being what
\* fails) the durable log holds a row for it, the deferral marker or the
\* error.
C26_DeferOrFailLogged ==
  [][\A w \in Workers :
       /\ (pc[w] # "p_job" /\ pc'[w] = "p_job") =>
            /\ PrecheckFailed(w)
            /\ cmd[w].probe.hasBalance /\ cmd[w].probe.hasAllowance
       /\ PrecheckFailed(w) => ex'[w] = ExIdle
       /\ (PrecheckFailed(w) /\ EndsInvocation(w) /\ pc[w] # "log") =>
            HasRow(rows', cmd[w].tweet)]_vars

\* ============================== properties: error kinds, fees, orderings

\* the error kind the text of an executor error stands for: the first known
\* marker it contains, in the order of the catch block, else the generic kind
ClaimedKind(caller, msg) ==
  IF caller = "reply"
  THEN IF "ERROR_DUPLICATE_GRANT" \in msg THEN "DUPLICATE_GRANT"
       ELSE IF "ERROR_CONTRACT_BALANCE" \in msg THEN "TREASURY_EMPTY"
       ELSE "BLOCKCHAIN"
  ELSE IF "ERROR_DUPLICATE_TWEET" \in msg THEN "DUPLICATE_TWEET"
       ELSE IF "ERROR_BALANCE" \in msg THEN "BALANCE"
       ELSE IF "ERROR_ALLOWANCE" \in msg THEN "ALLOWANCE"
       ELSE "BLOCKCHAIN"

\* the ways a logged code may spell a kind: ERROR_<kind>, or the batch form
\* ERROR_BATCH_ERROR_<kind>
CodesOf(kind) ==
  CASE kind = "DUPLICATE_TWEET" ->
         {<<"ERROR", "DUPLICATE_TWEET">>, <<"ERROR", "BATCH", "ERROR_DUPLICATE_TWEET">>}
    [] kind = "BALANCE" ->
         {<<"ERROR", "BALANCE">>, <<"ERROR", "BATCH", "ERROR_BALANCE">>}
    [] kind = "ALLOWANCE" ->
         {<<"ERROR", "ALLOWANCE">>, <<"ERROR", "BATCH", "ERROR_ALLOWANCE">>}
    [] kind = "DUPLICATE_GRANT" -> {<<"ERROR", "DUPLICATE_GRANT">>}
    [] kind = "TREASURY_EMPTY" -> {<<"ERROR", "TREASURY_EMPTY">>}
    [] OTHER -> {<<"ERROR", "BLOCKCHAIN">>, <<"ERROR", "BATCH", "ERROR_BLOCKCHAIN">>}

\* C27: when the executor throws into the catch block of a command, a grant
\* or a batch recipient, the row logged for it carries the code of the kind
\* its text stands for: duplicate tweet, then balance, then allowance for
\* P2P, duplicate grant, then contract balance for grants, and the generic
\* blockchain error for a text with none of these markers.
C27_ErrorKindLogged ==
  [][\A w \in Workers :
       (/\ pc[w] = "x_thrown"
        /\ ex[w].caller \in {"p2p", "reply", "batch"}
        /\ Len(rows') = Len(rows) + 1) =>
         rows'[Len(rows')].tx_hash \in CodesOf(ClaimedKind(ex[w].caller, ex[w].err))]_vars

\* the gross amount of the execution invocation w has just finished
Gross(w) ==
  IF ex[w].caller = "reply" THEN cmd[w].grantAmount ELSE scen.tweet.amount

\* C28: the success row of a P2P command or a grant records as fee the value
\* the router's calculateFee returned to the read made inside that execution
\* (the router's rate applied to the gross amount in token units), and as
\* amount the gross amount minus that fee.
C28_NetIsGrossMinusFee ==
  [][\A w \in Workers :
       (/\ pc[w] = "x_ret"
        /\ ex[w].caller \in {"p2p", "reply"}
        /\ Len(rows') = Len(rows) + 1) =>
         LET row == rows'[Len(rows')]
         IN /\ ex[w].fr = 1
            /\ row.fee = ((((Gross(w) + 5) \div 10) * feeRate) \div 100) * 10
            /\ row.amount = Gross(w) - row.fee
            /\ row.tx_hash = <<"0x", ex[w].hash>>]_vars

\* the success row of a command of 1.6 at a router fee of one half: fee 1,
\* amount 0.6
C28_Witness ==
  /\ feeRate = 50
  /\ \E i \in 1..Len(rows) :
       /\ rows[i].type = "p2p_command"
       /\ rows[i].tx_hash = <<"0x", 1>>
       /\ rows[i].fee = 10
       /\ rows[i].amount = 6

\* C29: a single-recipient command whose sender is short of both balance and
\* allowance is never recorded as an allowance failure: balance is decided
\* first, so the row is the balance kind.
C29_BalanceDecidedFirst ==
  \A i \in 1..Len(rows) :
    (/\ ~scen.tweet.multi
     /\ rows[i].type = "p2p_command"
     /\ FormatUnits(balance["a1"]) < scen.tweet.amount
     /\ FormatUnits(allowance["a1"]) < scen.tweet.amount) =>
      rows[i].tx_hash # <<"ERROR", "ALLOWANCE">>

\* the batch of this behaviour has k >= 2 recipients, all of them with a
\* profile and none the sender, a balance of at least k times the amount and
\* an allowance of at least one and less than two times the amount
SingleApproval ==
  LET tags == scen.tweet.recipients
      a == scen.tweet.amount
  IN /\ scen.tweet.multi
     /\ Len(tags) >= 2
     /\ Range(tags) \subseteq PayTags \ {scen.tweet.author}
     /\ FormatUnits(scen.bal) >= Len(tags) * a
     /\ a <= FormatUnits(scen.allow)
     /\ FormatUnits(scen.allow) < 2 * a

\* C30: such a batch, no call failing, returns with exactly its first two
\* recipients attempted: the first paid, the second failed on the allowance,
\* and every later one failed as 'Insufficient allowance (batch stopped)'.
C30_SecondTransferStopsBatch ==
  \A w \in Workers :
    (InBatch(w) /\ pc[w] = "b_return" /\ SingleApproval /\ faults = 0) =>
      LET tags == scen.tweet.recipients
          res == cmd[w].results
      IN /\ cmd[w].attempted = SubSeq(tags, 1, 2)
         /\ Len(res) = Len(tags)
         /\ res[1].tag = tags[1] /\ res[1].status = "success"
         /\ res[2] = [tag |-> tags[2], status |-> "failed",
                      reason |-> "Insufficient allowance", hash |-> 0]
         /\ \A i \in 3..Len(tags) :
              res[i] = [tag |-> tags[i], status |-> "failed",
                        reason |-> "Insufficient allowance (batch stopped)",
                        hash |-> 0]

\* ===================================== properties: reruns, clients, nonces

\* C31: however often a batch command is processed again, after a run that
\* finished or that a restart cut short, no recipient is paid twice: no two
\* mined executeP2P transactions go to the same wallet.
C31_NoSecondPayment ==
  \A i, j \in 1..Len(txs) :
    (/\ i # j
     /\ txs[i].fn = "executeP2P" /\ txs[j].fn = "executeP2P"
     /\ txs[i].mined /\ txs[j].mined) =>
      txs[i].to # txs[j].to

\* after a restart the batch runs again and the executor refuses bob, paid
\* in the earlier run, as a duplicate
C31_Witness ==
  \E w \in Workers :
    /\ restarts = 1
    /\ InBatch(w)
    /\ pc[w] = "x_thrown"
    /\ ex[w].caller = "batch"
    /\ ex[w].key = "t1_bob"
    /\ "ERROR_DUPLICATE_TWEET" \in ex[w].err
    /\ \E i \in 1..Len(txs) :
         txs[i].mined /\ txs[i].key = "t1_bob" /\ txs[i].to = "a2"

\* the steps of the executor that make a chain call
ChainCallPcs == {"x_pre", "x_pre2", "x_fee", "x_est", "x_est2", "x_write", "x_wait"}

\* C32: whatever rotations and retries have happened, the read client and the
\* write client are both on the endpoint at the current index, and every chain
\* call of the executor, the retry after a rotation included, goes through
\* the client on that endpoint; a submitted transaction went through it too.
C32_CallsUseRebuiltClients ==
  [][/\ clientRpc = currentRpc /\ walletRpc = currentRpc
     /\ clientRpc' = Min(rpcIndex', RpcCount - 1)
     /\ walletRpc' = Min(rpcIndex', RpcCount - 1)
     /\ \A w \in Workers :
          (/\ pc[w] \in ChainCallPcs
           /\ pc'[w] # pc[w]
           /\ pc'[w] \in ChainCallPcs \cup {"x_thrown", "x_ret"}) =>
            /\ ex'[w].via = Min(rpcIndex, RpcCount - 1)
            /\ Len(txs') > Len(txs) =>
                 txs'[Len(txs')].rpc = Min(rpcIndex, RpcCount - 1)]_vars

\* after two rotations in one call, at the pre-flight and at the estimation,
\* the transaction was submitted through the third endpoint
C32_Witness ==
  \E w \in Workers :
    /\ pc[w] = "x_wait"
    /\ ex[w].rot = 2
    /\ rpcIndex = 2
    /\ ex[w].via = 2
    /\ txs[ex[w].hash].rpc = 2

Holding(w, id) ==
  /\ pc[w] \in {"j_incr", "j_exec", "j_complete", "j_fail", "j_fail2"}
  /\ Head(sched[w].dueJobs) = id

Picked(i) == i <= Len(jobs) /\ \E w \in Workers : Holding(w, i)

\* job i has reached a status the loop never leaves
Terminal(i) == i <= Len(jobs) /\ jobs[i].status \in {"completed", "failed"}

\* C35: every job a worker has picked up is eventually completed or
\* permanently failed, and no job is executed more than three times,
\* whatever its max_attempts and however the steps of the workers and their
\* exits interleave.
C35_PickedJobsTerminate ==
  /\ \A i \in {1, 2} : Picked(i) ~> Terminal(i)
  /\ [](\A i \in {1, 2} : i <= Len(jobs) => jobs[i].runs <= MaxAttempts)

\* C36: a job created for a command deferred to the secondary chain is never
\* driven to the permanently failed state by the job loop of this worker
\* unless a transfer was attempted for its command: a transaction handed to
\* writeContract under the tweet of the job.
C36_DeferredJobNotFailedUnattempted ==
  \A i \in 1..Len(jobs) :
    (jobs[i].type = "cross_chain_p2p" /\ jobs[i].status = "failed") =>
      \E k \in 1..Len(txs) : txs[k].key = jobs[i].tweet

\* ===================================== properties: limits, log, results

\* the grants executed for the campaign: mined executeGrant transactions
ExecutedGrants ==
  {i \in 1..Len(txs) : txs[i].fn = "executeGrant" /\ txs[i].mined}

\* C37: for a campaign with max_participants = M the number of executed
\* grants never exceeds M, however the reply processing of overlapping poll
\* cycles interleaves.
C37_GrantsWithinLimit ==
  camp.max_participants # 0 =>
    Cardinality(ExecutedGrants) <= camp.max_participants

\* C38: a failed query of checkIfCommandProcessed or checkIfAlreadyGranted
\* counts as "not processed": the command goes on to the on-chain check (a
\* quote tweet to its skip row) and the grant to isGrantAlreadyIssued; and
\* whatever the log answered, no transaction is mined for a tweet key or a
\* campaign and recipient whose marker is already set on-chain.
C38_FailOpenThenChainGate ==
  [][\A w \in Workers :
       /\ (pc[w] = "p_db" /\ faults' = faults + 1) =>
            pc'[w] = (IF TweetOf(cmd[w].tweet).quote THEN "log" ELSE "p_chain")
       /\ (pc[w] = "g_db" /\ faults' = faults + 1) => pc'[w] = "g_chain"
       /\ (/\ pc[w] = "x_write"
           /\ Len(txs') > Len(txs)
           /\ txs'[Len(txs')].mined) =>
            IF ex[w].kind = "p2p"
            THEN ex[w].key \notin tweetUsed
            ELSE <<ex[w].key, ex[w].to>> \notin grantIssued]_vars

\* after a restart the command is polled again; its row is in the log but
\* the query failed, and the on-chain check found the marker of the transfer
\* made before the restart
C38_Witness ==
  \E w \in Workers :
    /\ pc[w] = "log"
    /\ cmd[w].tx_hash = <<"SKIP", "ALREADY_ONCHAIN">>
    /\ HasRow(rows, cmd[w].tweet)
    /\ faults >= 1
    /\ restarts = 1
    /\ cmd[w].tweet \in tweetUsed
    /\ Len(txs) = 1

\* C39: a row of the durable log has status "completed" only when its
\* tx_hash is the hash of a submitted transaction that was mined and whose
\* receipt was obtained; skip markers, the deferral marker, the limit marker
\* and error codes are logged with another status.
C39_CompletedOnlyForTransfers ==
  \A i \in 1..Len(rows) :
    rows[i].status = "completed" =>
      /\ Len(rows[i].tx_hash) = 2
      /\ Head(rows[i].tx_hash) = "0x"
      /\ rows[i].tx_hash[2] \in 1..Len(txs)
      /\ txs[rows[i].tx_hash[2]].mined
      /\ txs[rows[i].tx_hash[2]].receipt

\* the entries of results that are for tag
ResultsFor(results, tag) == {i \in 1..Len(results) : results[i].tag = tag}

\* C40: whenever a batch with pairwise-distinct tags returns, results holds
\* exactly one outcome for each requested tag and nothing else, and
\* summary.success + summary.failed = summary.total.
C40_OneOutcomePerRecipient ==
  \A w \in Workers :
    (InBatch(w) /\ pc[w] = "b_return") =>
      LET tags == scen.tweet.recipients
          c == cmd[w]
      IN /\ Len(c.results) = Len(tags)
         /\ \A k \in 1..Len(tags) :
              Cardinality(ResultsFor(c.results, tags[k])) = 1
         /\ \A i \in 1..Len(c.results) :
              c.results[i].status \in {"success", "failed"}
         /\ c.summary.success + c.summary.failed = c.summary.total

\* a batch of four returns after its loop was stopped: one tag without
\* profile, one transfer made, one failed on the allowance and one not tried
C40_Witness ==
  \E w \in Workers :
    /\ InBatch(w)
    /\ pc[w] = "b_return"
    /\ Len(scen.tweet.recipients) = 4
    /\ cmd[w].summary = [total |-> 4, success |-> 1, failed |-> 3]
    /\ TagsFailed(cmd[w].results, StoppedReasons) # {}
    /\ TagsFailed(cmd[w].results, {"Monitag not found"}) # {}

====
